---------------------------- MODULE Spec2Model ----------------------------
(***************************************************************************)
(* Field kernels of magpylib:                                              *)
(*   current_circle_field     (src/magpylib/_src/fields/field_BH_circle.py)*)
(*   BHJM_magnet_tetrahedron  (.../field_BH_tetrahedron.py)                *)
(* and its display styles:                                                 *)
(*   get_style, magic_to_dict (src/magpylib/_lib/display/style.py)         *)
(*                                                                         *)
(* A batch is a caller-owned set of co-indexed arrays; a kernel call is    *)
(* one action that evaluates the whole function on the arrays as they are  *)
(* at call time.                                                           *)
(*                                                                         *)
(* Numbers.  Coordinates, diameters, currents and polarizations are small  *)
(* integers.  Quantities the code computes that are not rational           *)
(* (square roots, elliptic integrals, trigonometric factors) are kept as   *)
(* terms: a record naming the expression and the integers it is built      *)
(* from.  Zero and NaN are values of their own, and the arithmetic         *)
(* operators below produce them where IEEE arithmetic does (0*x = 0,       *)
(* 0/0 = NaN, NaN*x = NaN).                                                *)
(***************************************************************************)
EXTENDS Integers, Sequences, FiniteSets, TLC

VARIABLES
    observers,     \* caller's observers array, shape (n,3)
    diameter,      \* caller's diameter array, shape (n,)      (loop kernel)
    current,       \* caller's current array, shape (n,)       (loop kernel)
    vertices,      \* caller's vertices array, shape (n,4,3)   (tetrahedron kernel)
    polarization,  \* caller's polarization array, shape (n,3) (tetrahedron kernel)
    call,          \* the arguments of the last call, as they were at call time
    ret,           \* what the last call did: outcome, value, steps executed
    obj,           \* the display object handed to get_style: its type and style
    keywords       \* style keywords the caller has collected for the next call

vars == <<observers, diameter, current, vertices, polarization, call, ret,
          obj, keywords>>

\* Longest batch the caller builds.
MaxN == 2

Abs(a) == IF a < 0 THEN -a ELSE a

Idx(s) == 1..Len(s)

\* s[mask] = the index list a boolean mask selects (numpy boolean indexing)
Sel(mask) == {i \in DOMAIN mask : mask[i]}

(***************************************************************************)
(* Values                                                                  *)
(***************************************************************************)
Zero == [k |-> "zero"]
NaN == [k |-> "nan"]

Zero3 == <<Zero, Zero, Zero>>

\* x * c for an integer c (finite)
TimesInt(x, c) ==
    IF x.k = "nan" THEN NaN
    ELSE IF x.k = "zero" \/ c = 0 THEN Zero
    ELSE [x EXCEPT !.cur = @ * c]

\* x * 1e-6
TimesE6(x) == IF x.k \in {"nan", "zero"} THEN x ELSE [x EXCEPT !.e6 = @ + 1]

\* x / MU0, MU0 the constant the module `mod` imports
DivMU0(x, mod) ==
    IF x.k \in {"nan", "zero"} THEN x ELSE [x EXCEPT !.mu0 = Append(@, mod)]

\* x * t for a trigonometric factor t = <<fn, y, x>> of the azimuth arctan2(y, x)
TimesTrig(x, t) ==
    IF x.k \in {"nan", "zero"} THEN x ELSE [x EXCEPT !.trig = t]

\* a finite non-zero geometric factor g, not yet scaled
Term(g) == [k |-> "num", g |-> g, trig |-> <<"one", 0, 0>>, cur |-> 1,
            e6 |-> 0, mu0 |-> <<>>]

(***************************************************************************)
(* Input validation (magpylib/_src/input_checks.py)                        *)
(***************************************************************************)
\* TRUE iff check_field_input returns; otherwise it raises
check_field_input(field) == field \in {"B", "H", "M", "J"}

Raised(what) == [out |-> "raised", err |-> what]

(***************************************************************************)
(* Coordinate transforms (magpylib/_src/utility.py)                        *)
(***************************************************************************)
\* r is carried as r2 = r^2 = x^2 + y^2, phi as the arguments of arctan2
cart_to_cyl_coordinates(o) ==
    [r2 |-> o[1] * o[1] + o[2] * o[2], phi |-> <<o[2], o[1]>>, z |-> o[3]]

\* (Bx, By) = (Br cos(phi), Br sin(phi)); at phi = arctan2(0, x >= 0) = 0
\* the factors are exactly 1 and 0
cyl_field_to_cart(phi, Br) ==
    IF phi[1] = 0 /\ phi[2] >= 0
    THEN <<Br, Zero>>
    ELSE <<TimesTrig(Br, <<"cos", phi[1], phi[2]>>),
           TimesTrig(Br, <<"sin", phi[1], phi[2]>>)>>

(***************************************************************************)
(* current_circle_field                                                    *)
(***************************************************************************)
\* caller's inputs of the loop kernel
LoopObservers == {<<0, 0, 0>>, <<0, 0, 1>>, <<1, 0, 0>>, <<1, 0, 1>>, <<1, 1, 1>>}
Diameters == {0, 1, 2, -2}
Currents == {1, -2}
Fields == {"B", "H", "M", "J", "X"}

\* r0 = |diameter / 2|, carried as 2*r0 = |diameter|
r0x2(d) == Abs(d)

\* mutant: compares r with the diameter instead of the radius
WithinTol_diameter(r2, D) == r2 = D * D /\ 0 < D

\* |r - r0| < 1e-15*r0.  r^2 and r0^2 are multiples of 1/4 here, so r # r0
\* puts them at least 1/(4(r + r0)) apart, far more than 1e-15*r0: on these
\* inputs the strict comparison holds exactly when r = r0 and r0 > 0.
WithinTol(r2, D) == 4 * r2 = D * D /\ 0 < D

\* case1: loop radius is 0
mask1(dia) == [i \in Idx(dia) |-> r0x2(dia[i]) = 0]

\* case2: at singularity
mask2(obs, dia) ==
    [i \in Idx(dia) |->
        LET c == cart_to_cyl_coordinates(obs[i])
        IN  WithinTol(c.r2, r0x2(dia[i])) /\ c.z = 0]

\* case3: r = 0
mask3(obs) == [i \in Idx(obs) |-> cart_to_cyl_coordinates(obs[i]).r2 = 0]

any(mask) == \E i \in DOMAIN mask : mask[i]

\* mutant: the on-axis branch forgets to leave out the radius-zero instances
mask4_with_case1(obs, dia) ==
    [i \in Idx(dia) |-> any(mask3(obs)) /\ mask3(obs)[i]]

\* mask3 * ~mask1, computed only if np.any(mask3)
mask4(obs, dia) ==
    [i \in Idx(dia) |-> any(mask3(obs)) /\ mask3(obs)[i] /\ ~mask1(dia)[i]]

\* mutant: the general case forgets to leave out the radius-zero instances
mask5_with_case1(obs, dia) ==
    [i \in Idx(dia) |-> ~(mask2(obs, dia)[i] \/ mask3(obs)[i])]

\* general case
mask5(obs, dia) ==
    [i \in Idx(dia) |-> ~((mask1(dia)[i] \/ mask2(obs, dia)[i]) \/ mask3(obs)[i])]

\* mutant: the on-axis form evaluated with the diameter in place of r0
AxisBz_diameter(D, z) ==
    IF z * z + D * D = 0 THEN NaN
    ELSE IF D = 0 THEN Zero
    ELSE Term([f |-> "axis", r0sq4 |-> 4 * D * D, s4 |-> 4 * z * z + 4 * D * D])

\* 0.6283185307179587 * r0**2 / (z**2 + r0**2)**(3/2), r0 = D/2:
\* the term names r0^2 and z^2 + r0^2 in quarters
AxisBz(D, z) ==
    IF 4 * z * z + D * D = 0 THEN NaN            \* 0/0
    ELSE IF D = 0 THEN Zero
    ELSE Term([f |-> "axis", r0sq4 |-> D * D, s4 |-> 4 * z * z + D * D])

\* The general-case expressions divide by r0, x0, sqrt(r), q2 and r:
\* r0 = 0, r = 0, or q2 = 0 (r = r0 and z = 0) give NaN or Inf.
GeneralFinite(D, r2, z) == D # 0 /\ r2 # 0 /\ ~(4 * r2 = D * D /\ z = 0)

\* pf * z / r * cel_iter(q, p, 1, cc, ss, p, q)   (cel* part)
GeneralBr(D, r2, z) ==
    IF ~GeneralFinite(D, r2, z) THEN NaN
    ELSE IF z = 0 THEN Zero
    ELSE Term([f |-> "celBr", D |-> D, r2 |-> r2, z |-> z])

\* -pf * cel_iter(q, p, 1, cc, ss, p, q)          (cel** part)
GeneralBz(D, r2, z) ==
    IF ~GeneralFinite(D, r2, z) THEN NaN
    ELSE Term([f |-> "celBz", D |-> D, r2 |-> r2, z |-> z])

\* Br_tot after the branches have written it
Br_tot(obs, dia) ==
    [i \in Idx(dia) |->
        LET c == cart_to_cyl_coordinates(obs[i])
        IN  IF mask5(obs, dia)[i] THEN GeneralBr(r0x2(dia[i]), c.r2, c.z) ELSE Zero]

\* Bz_tot after the branches have written it (the general case writes last)
Bz_tot(obs, dia) ==
    [i \in Idx(dia) |->
        LET c == cart_to_cyl_coordinates(obs[i])
        IN  IF mask5(obs, dia)[i] THEN GeneralBz(r0x2(dia[i]), c.r2, c.z)
            ELSE IF mask4(obs, dia)[i] THEN AxisBz(r0x2(dia[i]), c.z)
            ELSE Zero]

\* (concatenate((Bx,), (By,), (Bz,)) * current * 1e-6).T
B_cart(obs, dia, cur) ==
    [i \in Idx(dia) |->
        LET c  == cart_to_cyl_coordinates(obs[i])
            xy == cyl_field_to_cart(c.phi, Br_tot(obs, dia)[i])
        IN  <<TimesE6(TimesInt(xy[1], cur[i])),
              TimesE6(TimesInt(xy[2], cur[i])),
              TimesE6(TimesInt(Bz_tot(obs, dia)[i], cur[i]))>>]

\* mutant: H returned without the division
B_cart_not_divided(obs, dia, cur) == B_cart(obs, dia, cur)

\* B_cart / MU0, MU0 imported from magpylib._src.utility
B_cart_over_MU0(obs, dia, cur) ==
    [i \in Idx(dia) |->
        [c \in 1..3 |-> DivMU0(B_cart(obs, dia, cur)[i][c], "utility")]]

\* which branch wrote Br_tot[i] / Bz_tot[i]
BrWriters(obs, dia) ==
    [i \in Idx(dia) |-> IF mask5(obs, dia)[i] THEN {"general"} ELSE {}]

BzWriters(obs, dia) ==
    [i \in Idx(dia) |->
        (IF mask4(obs, dia)[i] THEN {"axis"} ELSE {})
        \cup (IF mask5(obs, dia)[i] THEN {"general"} ELSE {})]

\* mutant: no short-circuit for M and J, which then fall through to B / MU0
current_circle_field_no_MJ_return(field, obs, dia, cur) ==
    IF ~check_field_input(field) THEN Raised("check_field_input")
    ELSE [out |-> "returned",
          val |-> IF field = "B" THEN B_cart(obs, dia, cur)
                  ELSE B_cart_over_MU0(obs, dia, cur),
          cyl |-> TRUE,
          masks |-> <<mask1(dia), mask2(obs, dia), mask4(obs, dia), mask5(obs, dia)>>,
          cel |-> Sel(mask5(obs, dia)),
          wBr |-> BrWriters(obs, dia),
          wBz |-> BzWriters(obs, dia)]

\* the whole function: outcome, returned array, and the steps it executed
current_circle_field(field, obs, dia, cur) ==
    IF ~check_field_input(field) THEN Raised("check_field_input")
    ELSE IF field \in {"M", "J"}
    THEN [out |-> "returned", val |-> [i \in Idx(obs) |-> Zero3],
          cyl |-> FALSE, masks |-> <<>>, cel |-> {},
          wBr |-> [i \in Idx(obs) |-> {}], wBz |-> [i \in Idx(obs) |-> {}]]
    ELSE [out |-> "returned",
          val |-> IF field = "B" THEN B_cart(obs, dia, cur)
                  ELSE B_cart_over_MU0(obs, dia, cur),
          cyl |-> TRUE,
          masks |-> <<mask1(dia), mask2(obs, dia), mask4(obs, dia), mask5(obs, dia)>>,
          cel |-> Sel(mask5(obs, dia)),
          wBr |-> BrWriters(obs, dia),
          wBz |-> BzWriters(obs, dia)]

(***************************************************************************)
(* Double-precision arithmetic (numpy float64): a double is                *)
(* (-1)^neg * m * 2^e with m a 53-bit natural; every operation rounds the  *)
(* exact result to the nearest double, ties to even.  A result below the   *)
(* normal range is rounded to a subnormal (m shorter, e = MinExponent) or  *)
(* to zero; exponents stay far from the upper end of the range here, so    *)
(* there is no overflow.                                                   *)
(***************************************************************************)
\* Naturals of any size: sequences of limbs in base 2^12, least significant
\* first, the last limb non-zero (0 is the empty sequence).
LimbBits == 12
Base == 4096

RECURSIVE Limbs(_)
Limbs(n) == IF n = 0 THEN <<>> ELSE <<n % Base>> \o Limbs(n \div Base)

Limb(a, i) == IF i \in DOMAIN a THEN a[i] ELSE 0

RECURSIVE Trim(_)
Trim(a) == IF a = <<>> \/ a[Len(a)] # 0 THEN a ELSE Trim(SubSeq(a, 1, Len(a) - 1))

RECURSIVE AddFrom(_, _, _, _)
AddFrom(a, b, i, c) ==
    IF i > Len(a) /\ i > Len(b) THEN (IF c = 0 THEN <<>> ELSE <<c>>)
    ELSE <<(Limb(a, i) + Limb(b, i) + c) % Base>>
         \o AddFrom(a, b, i + 1, (Limb(a, i) + Limb(b, i) + c) \div Base)

BigAdd(a, b) == AddFrom(a, b, 1, 0)

RECURSIVE SubFrom(_, _, _, _)
SubFrom(a, b, i, c) ==
    IF i > Len(a) THEN <<>>
    ELSE <<(Limb(a, i) - Limb(b, i) - c + Base) % Base>>
         \o SubFrom(a, b, i + 1, IF Limb(a, i) - Limb(b, i) - c < 0 THEN 1 ELSE 0)

\* a - b for a >= b
BigSub(a, b) == Trim(SubFrom(a, b, 1, 0))

RECURSIVE LessFrom(_, _, _)
LessFrom(a, b, i) ==
    IF i = 0 THEN FALSE
    ELSE IF a[i] # b[i] THEN a[i] < b[i]
    ELSE LessFrom(a, b, i - 1)

BigLess(a, b) == IF Len(a) # Len(b) THEN Len(a) < Len(b) ELSE LessFrom(a, b, Len(a))

RECURSIVE MulSmallFrom(_, _, _, _)
MulSmallFrom(a, d, i, c) ==
    IF i > Len(a) THEN (IF c = 0 THEN <<>> ELSE <<c>>)
    ELSE <<(a[i] * d + c) % Base>> \o MulSmallFrom(a, d, i + 1, (a[i] * d + c) \div Base)

\* a * d for 0 <= d < Base
MulSmall(a, d) == IF d = 0 THEN <<>> ELSE MulSmallFrom(a, d, 1, 0)

\* a * Base^k
ShiftLimbs(a, k) == IF a = <<>> THEN <<>> ELSE [i \in 1..k |-> 0] \o a

RECURSIVE MulFrom(_, _, _)
MulFrom(a, b, i) ==
    IF i > Len(b) THEN <<>>
    ELSE BigAdd(ShiftLimbs(MulSmall(a, b[i]), i - 1), MulFrom(a, b, i + 1))

BigMul(a, b) == MulFrom(a, b, 1)

RECURSIVE TwoTo(_)
TwoTo(k) == IF k = 0 THEN 1 ELSE 2 * TwoTo(k - 1)

\* a * 2^k
ShiftLeft(a, k) == ShiftLimbs(MulSmall(a, TwoTo(k % LimbBits)), k \div LimbBits)

RECURSIVE SmallBitLen(_)
SmallBitLen(n) == IF n = 0 THEN 0 ELSE 1 + SmallBitLen(n \div 2)

\* number of bits of a
BitLen(a) == IF a = <<>> THEN 0 ELSE LimbBits * (Len(a) - 1) + SmallBitLen(a[Len(a)])

\* the largest d in lo..hi with d * b <= r, given lo * b <= r
RECURSIVE Digit(_, _, _, _)
Digit(r, b, lo, hi) ==
    IF lo = hi THEN lo
    ELSE IF BigLess(r, MulSmall(b, (lo + hi + 1) \div 2))
    THEN Digit(r, b, lo, (lo + hi + 1) \div 2 - 1)
    ELSE Digit(r, b, (lo + hi + 1) \div 2, hi)

\* long division of a by b: limbs i..1 of a still to bring down, r the
\* remainder and q the quotient limbs so far
RECURSIVE DivFrom(_, _, _, _, _)
DivFrom(a, b, i, r, q) ==
    IF i = 0 \/ Len(q) < 0 THEN [q |-> Trim(q), r |-> r]
    ELSE DivFrom(a, b, i - 1,
                 BigSub(Trim(<<a[i]>> \o r),
                        MulSmall(b, Digit(Trim(<<a[i]>> \o r), b, 0, Base - 1))),
                 <<Digit(Trim(<<a[i]>> \o r), b, 0, Base - 1)>> \o q)

\* quotient and remainder of a by b > 0
BigDivMod(a, b) == DivFrom(a, b, Len(a), <<>>, <<>>)

RECURSIVE Horner(_, _, _)
Horner(digits, i, acc) ==
    IF i > Len(digits) THEN acc
    ELSE Horner(digits, i + 1, BigAdd(MulSmall(acc, 10), Limbs(digits[i])))

RECURSIVE Pow10(_)
Pow10(p) == IF p = 0 THEN <<1>> ELSE MulSmall(Pow10(p - 1), 10)

\* bits of the significand of a float64
MantissaBits == 53

FZero == [neg |-> FALSE, m |-> <<>>, e |-> 0]

\* the double nearest to n * 2^e, ties to even; sticky: the exact value is
\* above n * 2^e by less than 2^e
\* exponent of the last bit of a subnormal double: 2^-1074
MinExponent == -1074

Max(a, b) == IF a < b THEN b ELSE a

\* the double nearest to (-1)^neg * n * 2^e; sticky: the exact value lies
\* strictly above n * 2^e and below (n + 1) * 2^e
Round(neg, n, e, sticky) ==
    LET k == Max(BitLen(n) - MantissaBits, MinExponent - e)
    IN  IF n = <<>> THEN FZero
        ELSE IF k <= 0
        THEN [neg |-> neg, m |-> ShiftLeft(n, -k), e |-> e + k]
        ELSE LET d    == BigDivMod(n, ShiftLeft(<<1>>, k))
                 half == ShiftLeft(<<1>>, k - 1)
                 up   == \/ BigLess(half, d.r)
                         \/ d.r = half /\ (sticky \/ Limb(d.q, 1) % 2 = 1)
                 m    == IF up THEN BigAdd(d.q, <<1>>) ELSE d.q
             IN  IF m = <<>> THEN FZero
                 ELSE IF BitLen(m) > MantissaBits
                 THEN [neg |-> neg, m |-> BigDivMod(m, <<2>>).q, e |-> e + k + 1]
                 ELSE [neg |-> neg, m |-> m, e |-> e + k]

FromInt(n) == Round(n < 0, Limbs(IF n < 0 THEN -n ELSE n), 0, FALSE)

\* bits to scale a dividend by so that the quotient by 10^-p has more than
\* MantissaBits + 1 bits
DecShift(p) == MantissaBits + 2 + BitLen(Pow10(-p))

\* the double a decimal literal denotes: digits * 10^p
Dec(digits, p) ==
    IF p >= 0 THEN Round(FALSE, BigMul(Horner(digits, 1, <<>>), Pow10(p)), 0, FALSE)
    ELSE LET d == BigDivMod(ShiftLeft(Horner(digits, 1, <<>>), DecShift(p)), Pow10(-p))
         IN  Round(FALSE, d.q, -DecShift(p), d.r # <<>>)

\* x * y
FMul(x, y) == Round(x.neg # y.neg, BigMul(x.m, y.m), x.e + y.e, FALSE)

\* x / y, y # 0
FDiv(x, y) ==
    LET s == 2 * MantissaBits + 3 - BitLen(x.m)
        d == BigDivMod(ShiftLeft(x.m, s), y.m)
    IN  Round(x.neg # y.neg, d.q, x.e - s - y.e, d.r # <<>>)

\* |x| < |y|
MagLess(x, y) ==
    IF y.m = <<>> THEN FALSE
    ELSE IF x.m = <<>> THEN TRUE
    ELSE LET lo == IF x.e < y.e THEN x.e ELSE y.e
         IN  BigLess(ShiftLeft(x.m, x.e - lo), ShiftLeft(y.m, y.e - lo))

\* x + y
FAdd(x, y) ==
    LET lo == IF x.e < y.e THEN x.e ELSE y.e
        X  == ShiftLeft(x.m, x.e - lo)
        Y  == ShiftLeft(y.m, y.e - lo)
    IN  IF x.m = <<>> THEN y
        ELSE IF y.m = <<>> THEN x
        ELSE IF x.neg = y.neg THEN Round(x.neg, BigAdd(X, Y), lo, FALSE)
        ELSE IF BigLess(X, Y) THEN Round(y.neg, BigSub(Y, X), lo, FALSE)
        ELSE Round(x.neg, BigSub(X, Y), lo, FALSE)

FNeg(x) == IF x.m = <<>> THEN x ELSE [x EXCEPT !.neg = ~@]

\* x - y
FSub(x, y) == FAdd(x, FNeg(y))

\* np.abs
FAbs(x) == [x EXCEPT !.neg = FALSE]

\* x < y
FLess(x, y) ==
    IF x.neg /\ ~y.neg THEN x.m # <<>> \/ y.m # <<>>
    ELSE IF ~x.neg /\ y.neg THEN FALSE
    ELSE IF x.neg THEN MagLess(y, x)
    ELSE MagLess(x, y)

\* the literals of the source
AxisConstant == Dec(<<6, 2, 8, 3, 1, 8, 5, 3, 0, 7, 1, 7, 9, 5, 8, 7>>, -16)
MicroScale == Dec(<<1>>, -6)

\* numpy.pi
np_pi == Dec(<<3, 1, 4, 1, 5, 9, 2, 6, 5, 3, 5, 8, 9, 7, 9, 3>>, -15)

\* MU0 of magpylib._src.utility: 4 pi 1e-7
MU0_utility == FMul(FMul(FromInt(4), np_pi), Dec(<<1>>, -7))

FOne == FromInt(1)

\* n / 4 for a small natural n: r0**2 and z**2 + r0**2, which the code gets
\* by operations that are exact on these operands
Quarter(n) == FDiv(FromInt(n), FromInt(4))

\* x is 4^j for an integer j
IsPowerOfFour(x) == x.m = ShiftLeft(<<1>>, MantissaBits - 1) /\ (x.e + MantissaBits - 1) % 2 = 0

\* x ** (3 / 2) where the result is exact: (4^j) ** 1.5 = 8^j
PowThreeHalves(x) == [x EXCEPT !.e = 3 * ((x.e + MantissaBits - 1) \div 2) - (MantissaBits - 1)]

RECURSIVE Times(_, _, _)
Times(x, y, n) == IF n = 0 THEN x ELSE Times(FMul(x, y), y, n - 1)

RECURSIVE OverMU0(_, _, _)
OverMU0(x, mods, i) ==
    IF i > Len(mods) THEN x ELSE OverMU0(FDiv(x, MU0_utility), mods, i + 1)

\* The double a component of the result is, for the components the on-axis
\* branch or no branch wrote: ((0.6283185307179587 * r0**2 / s**(3/2))
\* * current * 1e-6) / MU0, evaluated left to right as the source does.
\* Components that need libm functions of inexact results are left as terms.
Float(t) ==
    IF t.k = "zero" THEN FZero
    ELSE IF t.k = "num" /\ t.g.f = "axis" /\ IsPowerOfFour(Quarter(t.g.s4))
                        /\ \A i \in DOMAIN t.mu0 : t.mu0[i] = "utility"
    THEN OverMU0(Times(FMul(FDiv(FMul(AxisConstant, Quarter(t.g.r0sq4)),
                                 PowThreeHalves(Quarter(t.g.s4))),
                            FromInt(t.cur)),
                       MicroScale, t.e6),
                 t.mu0, 1)
    ELSE t

\* array `name` after the stores, in program order: a store replaces the rows
\* it names
Stored(name, arr, stores) ==
    LET into == SelectSeq(stores, LAMBDA s : s.buf = name)
    IN  IF into = <<>> THEN arr
        ELSE [i \in Idx(arr) |->
                LET W == {k \in DOMAIN into : i \in DOMAIN into[k].val}
                IN  IF W = {} THEN arr[i]
                    ELSE into[CHOOSE k \in W : \A l \in W : l <= k].val[i]]

\* mutant: lines 114-115 as in-place divisions (z /= r0) on the arrays of
\* line 83, z being the column observers[:, 2]; z / r0 = 2 z / |diameter|
current_circle_field_stores_inplace_z(field, obs, dia) ==
    IF ~check_field_input(field) \/ field \in {"M", "J"} THEN <<>>
    ELSE IF any(mask5(obs, dia))
    THEN <<[buf |-> "observers", line |-> 115,
           val |-> [i \in Sel(mask5(obs, dia)) |->
                      <<obs[i][1], obs[i][2], (2 * obs[i][3]) \div r0x2(dia[i])>>]]>>
    ELSE <<>>

\* The subscripted assignments the call executes, each with the array its
\* target is bound to and the rows it writes.  Br_tot and Bz_tot are the
\* rows of the np.zeros((2, n)) of line 88; r0, r and z are rebound to new
\* arrays by lines 84, 108-110 and 114-115 and are never assigned into.
current_circle_field_stores(field, obs, dia) ==
    IF ~check_field_input(field) \/ field \in {"M", "J"} THEN <<>>
    ELSE (IF any(mask3(obs))
          THEN <<[buf |-> "Bz_tot", line |-> 99,
                 val |-> [i \in Sel(mask4(obs, dia)) |->
                            AxisBz(r0x2(dia[i]), obs[i][3])]]>>
          ELSE <<>>)
         \o
         (IF any(mask5(obs, dia))
          THEN <<[buf |-> "Br_tot", line |-> 131,
                 val |-> [i \in Sel(mask5(obs, dia)) |->
                            GeneralBr(r0x2(dia[i]),
                                      cart_to_cyl_coordinates(obs[i]).r2, obs[i][3])]],
                [buf |-> "Bz_tot", line |-> 136,
                 val |-> [i \in Sel(mask5(obs, dia)) |->
                            GeneralBz(r0x2(dia[i]),
                                      cart_to_cyl_coordinates(obs[i]).r2, obs[i][3])]]>>
          ELSE <<>>)

(***************************************************************************)
(* The caller                                                              *)
(***************************************************************************)
NoCall == [fn |-> "none"]
NoRet == [out |-> "none"]
NoObject == [type |-> "none"]

InitLoop ==
    /\ observers = <<>>
    /\ diameter = <<>>
    /\ current = <<>>
    /\ vertices = <<>>
    /\ polarization = <<>>
    /\ call = NoCall
    /\ ret = NoRet
    /\ obj = NoObject
    /\ keywords = <<>>

\* the caller adds one loop instance to the batch it is building
AppendLoop(o, d, c) ==
    /\ call = NoCall
    /\ Len(observers) < MaxN
    /\ observers' = Append(observers, o)
    /\ diameter' = Append(diameter, d)
    /\ current' = Append(current, c)
    /\ UNCHANGED <<vertices, polarization, call, ret, obj, keywords>>

\* one call of current_circle_field on the caller's arrays
CallCircle(field) ==
    /\ call = NoCall
    /\ Len(observers) >= 1
    /\ call' = [fn |-> "current_circle_field", field |-> field,
                observers |-> observers, diameter |-> diameter, current |-> current]
    /\ ret' = current_circle_field(field, observers, diameter, current)
    /\ LET st == current_circle_field_stores(field, observers, diameter)
       IN  /\ observers' = Stored("observers", observers, st)
           /\ diameter' = Stored("diameter", diameter, st)
           /\ current' = Stored("current", current, st)
    /\ UNCHANGED <<vertices, polarization, obj, keywords>>

\* the caller calls again, with the same field, on the arrays as they are now
RepeatCircle ==
    /\ call.fn = "current_circle_field"
    /\ call' = [fn |-> "current_circle_field", field |-> call.field,
                observers |-> observers, diameter |-> diameter, current |-> current]
    /\ ret' = current_circle_field(call.field, observers, diameter, current)
    /\ LET st == current_circle_field_stores(call.field, observers, diameter)
       IN  /\ observers' = Stored("observers", observers, st)
           /\ diameter' = Stored("diameter", diameter, st)
           /\ current' = Stored("current", current, st)
    /\ UNCHANGED <<vertices, polarization, obj, keywords>>

\* the caller drops its arrays and starts a new batch
NewLoopBatch ==
    /\ call # NoCall
    /\ observers' = <<>>
    /\ diameter' = <<>>
    /\ current' = <<>>
    /\ call' = NoCall
    /\ ret' = NoRet
    /\ UNCHANGED <<vertices, polarization, obj, keywords>>

NextLoop ==
    \/ \E o \in LoopObservers, d \in Diameters, c \in Currents : AppendLoop(o, d, c)
    \/ \E f \in Fields : CallCircle(f)
    \/ RepeatCircle
    \/ NewLoopBatch

SpecLoop == InitLoop /\ [][NextLoop]_vars

(***************************************************************************)
(* current_loop_field, the deprecated alias                                *)
(***************************************************************************)
ParameterNames == {"field", "observers", "diameter", "current"}

\* A call current_circle_field(*args, **kwargs).  The parameters are
\* keyword-only and have no defaults (the bare * of line 19): a positional
\* argument, a missing or an unknown keyword raises TypeError before the
\* body runs.
call_current_circle_field(args, kwargs) ==
    IF args # <<>> \/ DOMAIN kwargs # ParameterNames THEN Raised("TypeError")
    ELSE current_circle_field(kwargs.field, kwargs.observers, kwargs.diameter,
                              kwargs.current)

\* mutant: only the keyword arguments are forwarded
current_loop_field_keywords_only(args, kwargs) ==
    [warned |-> <<"MagpylibDeprecationWarning">>,
     forwarded |-> [args |-> <<>>, kwargs |-> kwargs]]
    @@ call_current_circle_field(<<>>, kwargs)

\* warnings.warn(..., MagpylibDeprecationWarning, stacklevel=2), then
\* return current_circle_field(*args, **kwargs).  warned: the warnings
\* issued, in order; forwarded: the arguments handed on; the other fields
\* are the outcome of the forwarded call.
current_loop_field(args, kwargs) ==
    [warned |-> <<"MagpylibDeprecationWarning">>,
     forwarded |-> [args |-> args, kwargs |-> kwargs]]
    @@ call_current_circle_field(args, kwargs)

\* the ways the caller spells the call: all four keywords; the field type
\* given positionally; a keyword left out
AliasArgs == {<<>>, <<"B">>}
AliasKeywords == {ParameterNames, ParameterNames \ {"field"}, ParameterNames \ {"current"}}

\* one call of current_loop_field on the caller's arrays
CallLoopAlias(field, args, names) ==
    LET kwargs == [k \in names |->
                      [field |-> field, observers |-> observers,
                       diameter |-> diameter, current |-> current][k]]
        bound  == args = <<>> /\ names = ParameterNames
        st     == IF bound THEN current_circle_field_stores(field, observers, diameter)
                  ELSE <<>>
    IN  /\ call = NoCall
        /\ Len(observers) >= 1
        /\ call' = [fn |-> "current_loop_field", args |-> args, kwargs |-> kwargs]
        /\ ret' = current_loop_field(args, kwargs)
        /\ observers' = Stored("observers", observers, st)
        /\ diameter' = Stored("diameter", diameter, st)
        /\ current' = Stored("current", current, st)
        /\ UNCHANGED <<vertices, polarization, obj, keywords>>

NextLoopAlias ==
    \/ \E o \in LoopObservers, d \in Diameters, c \in Currents : AppendLoop(o, d, c)
    \/ \E f \in Fields, a \in AliasArgs, n \in AliasKeywords : CallLoopAlias(f, a, n)
    \/ NewLoopBatch

SpecLoopAlias == InitLoop /\ [][NextLoopAlias]_vars

(***************************************************************************)
(* BHJM_magnet_tetrahedron                                                 *)
(***************************************************************************)
\* caller's inputs of the tetrahedron kernel: a right-handed tetrahedron,
\* the same solid left-handed, a left-handed one whose vertex 0 is not the
\* origin, and two of zero volume (four coplanar vertices, a repeated vertex)
TetraVertices ==
    {<<<<0, 0, 0>>, <<4, 0, 0>>, <<0, 4, 0>>, <<0, 0, 4>>>>,
     <<<<0, 0, 0>>, <<4, 0, 0>>, <<0, 0, 4>>, <<0, 4, 0>>>>,
     <<<<4, 0, 0>>, <<0, 0, 0>>, <<0, 4, 0>>, <<0, 0, 4>>>>,
     <<<<0, 0, 0>>, <<4, 0, 0>>, <<0, 4, 0>>, <<4, 4, 0>>>>,
     <<<<0, 0, 0>>, <<4, 0, 0>>, <<4, 0, 0>>, <<0, 4, 0>>>>}

\* strictly inside the first three, outside every one, on an edge
TetraObservers == {<<1, 1, 1>>, <<4, 4, 4>>, <<2, 2, 0>>}
Polarizations == {<<0, 0, 1>>, <<1, 2, 3>>}
InOuts == {"auto", "inside", "outside", "maybe"}

Sub3(a, b) == <<a[1] - b[1], a[2] - b[2], a[3] - b[3]>>

\* determinant of the 3x3 matrix whose columns are a, b, c
Det3(a, b, c) ==
    a[1] * (b[2] * c[3] - b[3] * c[2])
    - b[1] * (a[2] * c[3] - a[3] * c[2])
    + c[1] * (a[2] * b[3] - a[3] * b[2])

\* dets[i]: vecs[:, :, k] = points[:, k+1, :] - points[:, 0, :]
dets(p) == Det3(Sub3(p[2], p[1]), Sub3(p[3], p[1]), Sub3(p[4], p[1]))

\* mutant: the two rows are assigned one after the other from the array
\* being written, so that row 2 is lost (both rows end as the old row 3)
check_chirality_sequential(points) ==
    [i \in Idx(points) |->
        IF dets(points[i]) < 0
        THEN <<points[i][1], points[i][2], points[i][4], points[i][4]>>
        ELSE points[i]]

\* mutant: rows 2 and 3 are exchanged in every tetrahedron, whatever the sign
\* of its determinant
check_chirality_unconditional(points) ==
    [i \in Idx(points) |-> <<points[i][1], points[i][2], points[i][4], points[i][3]>>]

\* points[dets_neg, 2:, :] = points[dets_neg, 3:1:-1, :], in place;
\* the value is the caller's array after the call
check_chirality(points) ==
    [i \in Idx(points) |->
        IF dets(points[i]) < 0
        THEN <<points[i][1], points[i][2], points[i][4], points[i][3]>>
        ELSE points[i]]

\* newp = inv(mat) . (point - vertices[0]) for one instance, mat the matrix
\* of the edge vectors from vertex 0 as columns.  inv(mat) = adj(mat)/det(mat),
\* so newp[k] = num[k]/det with num[k] the determinant of mat with column k
\* replaced by the right-hand side.
newp(point, v) ==
    LET e1 == Sub3(v[2], v[1])
        e2 == Sub3(v[3], v[1])
        e3 == Sub3(v[4], v[1])
        b  == Sub3(point, v[1])
    IN  [num |-> <<Det3(b, e2, e3), Det3(e1, b, e3), Det3(e1, e2, b)>>,
         det |-> Det3(e1, e2, e3)]

\* np.all(newp >= 0) & np.all(newp <= 1) & (np.sum(newp) <= 1), det # 0
inside(point, v) ==
    LET q == newp(point, v)
    IN  /\ \A k \in 1..3 : q.num[k] * q.det >= 0
        /\ \A k \in 1..3 : q.num[k] * q.det <= q.det * q.det
        /\ (q.num[1] + q.num[2] + q.num[3]) * q.det <= q.det * q.det

\* np.linalg.inv raises LinAlgError when a matrix of the stack is singular
\* (an exact zero pivot; the elimination is exact on these inputs)
singular(verts) == \E i \in Idx(verts) : dets(verts[i]) = 0

\* mutant: a policy other than the three documented ones is rejected
point_inside_guarded(points, verts, in_out) ==
    IF in_out = "inside"
    THEN [out |-> "returned", val |-> [i \in Idx(points) |-> TRUE], inv |-> FALSE]
    ELSE IF in_out = "outside"
    THEN [out |-> "returned", val |-> [i \in Idx(points) |-> FALSE], inv |-> FALSE]
    ELSE IF in_out # "auto" \/ singular(verts)
    THEN [out |-> "raised", val |-> <<>>, inv |-> in_out = "auto"]
    ELSE [out |-> "returned",
          val |-> [i \in Idx(points) |-> inside(points[i], verts[i])],
          inv |-> TRUE]

\* out: "returned" with the boolean array, or "raised"; inv: whether the
\* edge matrices were inverted
point_inside(points, verts, in_out) ==
    IF in_out = "inside"
    THEN [out |-> "returned", val |-> [i \in Idx(points) |-> TRUE], inv |-> FALSE]
    ELSE IF in_out = "outside"
    THEN [out |-> "returned", val |-> [i \in Idx(points) |-> FALSE], inv |-> FALSE]
    ELSE IF singular(verts)
    THEN [out |-> "raised", val |-> <<>>, inv |-> TRUE]
    ELSE [out |-> "returned",
          val |-> [i \in Idx(points) |-> inside(points[i], verts[i])],
          inv |-> TRUE]

\* A result row: the triangle-kernel rows added up (in the order added), the
\* polarization added to them, and the divisions by MU0.
ZeroVec == [sum |-> <<>>, pol |-> <<0, 0, 0>>, mu0 |-> <<>>]

PolVec(J) == [sum |-> <<>>, pol |-> J, mu0 |-> <<>>]

\* v / MU0, MU0 = scipy.constants.mu_0
VecOverMU0(v) == IF v = ZeroVec THEN v ELSE [v EXCEPT !.mu0 = Append(@, "scipy")]

\* mutant: np.repeat(a, 4, axis=0), each row four times in a row
repeat4(a) == [j \in 1..(4 * Len(a)) |-> a[(j + 3) \div 4]]

\* np.tile(a, (4, 1))
tile4(a) == a \o a \o a \o a

\* vertices[:, (a, b, c), :]
face(verts, a, b, c) == [i \in Idx(verts) |-> <<verts[i][a], verts[i][b], verts[i][c]>>]

\* mutant: the first face in the order (0, 1, 2)
tri_vertices_first_face_reversed(verts) ==
    face(verts, 1, 2, 3) \o face(verts, 1, 2, 4) \o face(verts, 2, 3, 4)
    \o face(verts, 1, 4, 3)

tri_vertices(verts) ==
    face(verts, 1, 3, 2) \o face(verts, 1, 2, 4) \o face(verts, 2, 3, 4)
    \o face(verts, 1, 4, 3)

\* The triangle kernel keeps the kernels' field-type contract: its H row is
\* its B row of the same arguments divided by mu0.
TriangleBoverMU0(t) == [t EXCEPT !.f = IF @ = "B" THEN "H" ELSE @]

\* BHJM_triangle (magpylib/_src/fields/field_BH_triangle.py): one row per
\* instance, a function of that instance's observer, ordered triangle and
\* polarization, and of the field type
BHJM_triangle(field, obs, verts, pol) ==
    [i \in Idx(obs) |-> [f |-> field, o |-> obs[i], v |-> verts[i], J |-> pol[i]]]

\* tri_field[:n] + tri_field[n:2n] + tri_field[2n:3n] + tri_field[3n:]
sum4(tri_field, n) ==
    [i \in 1..n |->
        [sum |-> <<tri_field[i], tri_field[n + i], tri_field[2 * n + i],
                   tri_field[3 * n + i]>>,
         pol |-> <<0, 0, 0>>, mu0 |-> <<>>]]

\* mutant: zeroes the rows of the inside observers instead of the outside ones
keep_inside_inverted(pol, mask) ==
    [i \in Idx(pol) |-> IF mask[i] THEN ZeroVec ELSE PolVec(pol[i])]

\* BHJM[~mask_inside] *= 0 on BHJM = polarization.astype(float)
keep_inside(pol, mask) == [i \in Idx(pol) |-> IF mask[i] THEN PolVec(pol[i]) ELSE ZeroVec]

\* mutant: adds the polarization to every row, inside or not
add_inside_everywhere(BHJM, pol, mask) ==
    [i \in Idx(pol) |-> [BHJM[i] EXCEPT !.pol = pol[i]]]

\* BHJM[mask_inside] += polarization[mask_inside]
add_inside(BHJM, pol, mask) ==
    [i \in Idx(pol) |-> IF mask[i] THEN [BHJM[i] EXCEPT !.pol = pol[i]] ELSE BHJM[i]]

\* mutant: astype(float, copy=False), which hands back the array itself
\* when it already holds floats
astype_no_copy(buf) == buf

\* ndarray.astype(float), copy=True by default: always a newly allocated
\* array, never the array `buf` it is called on
astype(buf) == "fresh"

\* the M and J paths (lines 122-130); buf: the array the result lives in
\* (BHJM itself for J, the new array BHJM / MU0 for M)
tetrahedron_MJ(field, obs, verts, pol, in_out) ==
    LET m == point_inside(obs, verts, in_out)
    IN  IF m.out = "raised"
        THEN [out |-> "raised", err |-> "LinAlgError", inv |-> m.inv, tri |-> <<>>,
              verts |-> verts]
        ELSE [out |-> "returned",
              val |-> IF field = "J" THEN keep_inside(pol, m.val)
                      ELSE [i \in Idx(pol) |-> VecOverMU0(keep_inside(pol, m.val)[i])],
              buf |-> IF field = "J" THEN astype("polarization") ELSE "fresh",
              inv |-> m.inv, tri |-> <<>>, verts |-> verts]

\* mutant: the polarization is added before the H result is returned
tetrahedron_BH_H_after_add(field, obs, verts, pol, in_out) ==
    LET vs   == check_chirality(verts)
        rows == [o |-> tile4(obs), v |-> tri_vertices(vs), J |-> tile4(pol)]
        BHJM == sum4(BHJM_triangle(field, rows.o, rows.v, rows.J), Len(obs))
        m    == point_inside(obs, vs, in_out)
    IN  IF m.out = "raised"
        THEN [out |-> "raised", err |-> "LinAlgError", inv |-> m.inv, tri |-> rows,
              verts |-> vs]
        ELSE [out |-> "returned", val |-> add_inside(BHJM, pol, m.val),
              buf |-> "fresh", inv |-> m.inv, tri |-> rows, verts |-> vs]

\* mutant: point_inside is evaluated before the H result is returned
tetrahedron_BH_mask_before_H(field, obs, verts, pol, in_out) ==
    LET vs   == check_chirality(verts)
        rows == [o |-> tile4(obs), v |-> tri_vertices(vs), J |-> tile4(pol)]
        BHJM == sum4(BHJM_triangle(field, rows.o, rows.v, rows.J), Len(obs))
        m    == point_inside(obs, vs, in_out)
    IN  IF m.out = "raised"
        THEN [out |-> "raised", err |-> "LinAlgError", inv |-> m.inv, tri |-> rows,
              verts |-> vs]
        ELSE IF field = "H"
        THEN [out |-> "returned", val |-> BHJM, buf |-> "fresh", inv |-> m.inv,
              tri |-> rows, verts |-> vs]
        ELSE [out |-> "returned", val |-> add_inside(BHJM, pol, m.val),
              buf |-> "fresh", inv |-> m.inv, tri |-> rows, verts |-> vs]

\* the B and H paths (lines 132-163)
tetrahedron_BH(field, obs, verts, pol, in_out) ==
    LET vs   == check_chirality(verts)
        rows == [o |-> tile4(obs), v |-> tri_vertices(vs), J |-> tile4(pol)]
        BHJM == sum4(BHJM_triangle(field, rows.o, rows.v, rows.J), Len(obs))
        m    == point_inside(obs, vs, in_out)
    IN  IF field = "H"
        THEN [out |-> "returned", val |-> BHJM, buf |-> "fresh", inv |-> FALSE,
              tri |-> rows, verts |-> vs]
        ELSE IF m.out = "raised"
        THEN [out |-> "raised", err |-> "LinAlgError", inv |-> m.inv, tri |-> rows,
              verts |-> vs]
        ELSE [out |-> "returned", val |-> add_inside(BHJM, pol, m.val),
              buf |-> "fresh", inv |-> m.inv, tri |-> rows, verts |-> vs]

\* mutant: the field type is validated after the vertices are normalised
BHJM_magnet_tetrahedron_late_check(field, obs, verts, pol, in_out) ==
    IF ~check_field_input(field)
    THEN [out |-> "raised", err |-> "check_field_input", inv |-> FALSE, tri |-> <<>>,
          verts |-> check_chirality(verts)]
    ELSE IF field \in {"J", "M"} THEN tetrahedron_MJ(field, obs, verts, pol, in_out)
    ELSE tetrahedron_BH(field, obs, verts, pol, in_out)

\* the whole function: outcome, returned array, the steps it executed
\* (inv: edge matrices inverted; tri: the batch handed to BHJM_triangle)
\* and verts, the caller's vertices array after the call
BHJM_magnet_tetrahedron(field, obs, verts, pol, in_out) ==
    IF ~check_field_input(field)
    THEN [out |-> "raised", err |-> "check_field_input", inv |-> FALSE, tri |-> <<>>,
          verts |-> verts]
    ELSE IF field \in {"J", "M"} THEN tetrahedron_MJ(field, obs, verts, pol, in_out)
    ELSE tetrahedron_BH(field, obs, verts, pol, in_out)

\* The subscripted assignments the call executes, each with the array its
\* target is bound to and the rows it stores: points[dets_neg, 2:, :] in
\* check_chirality (points is the caller's vertices), BHJM[~mask_inside] on
\* the array of line 120, BHJM[mask_inside] on the face sum of line 150.
\* r is the outcome of the call, r.verts the vertices as it left them.
BHJM_magnet_tetrahedron_stores(r, field, obs, verts, pol, in_out) ==
    (IF r.verts # verts
     THEN <<[buf |-> "vertices", line |-> 37,
             val |-> [i \in {j \in Idx(verts) : r.verts[j] # verts[j]} |->
                        r.verts[i]]]>>
     ELSE <<>>)
    \o
    (IF field \in {"J", "M"} /\ r.out = "returned"
     THEN <<[buf |-> astype("polarization"), line |-> IF field = "J" THEN 124 ELSE 129,
             val |-> [i \in {j \in Idx(pol) : ~point_inside(obs, verts, in_out).val[j]}
                        |-> <<0, 0, 0>>]]>>
     ELSE <<>>)
    \o
    (IF field = "B" /\ r.out = "returned"
     THEN <<[buf |-> "fresh", line |-> 162,
             val |-> [i \in Sel(point_inside(obs, r.verts, in_out).val) |-> r.val[i]]]>>
     ELSE <<>>)

InitTetra ==
    /\ observers = <<>>
    /\ diameter = <<>>
    /\ current = <<>>
    /\ vertices = <<>>
    /\ polarization = <<>>
    /\ call = NoCall
    /\ ret = NoRet
    /\ obj = NoObject
    /\ keywords = <<>>

\* the caller adds one tetrahedron instance to the batch it is building
AppendTetra(o, v, J) ==
    /\ call = NoCall
    /\ Len(observers) < MaxN
    /\ observers' = Append(observers, o)
    /\ vertices' = Append(vertices, v)
    /\ polarization' = Append(polarization, J)
    /\ UNCHANGED <<diameter, current, call, ret, obj, keywords>>

\* one call of BHJM_magnet_tetrahedron on the caller's arrays; vertices is
\* passed by reference and holds what the call left in it
CallTetra(field, in_out) ==
    /\ call = NoCall
    /\ Len(observers) >= 1
    /\ call' = [fn |-> "BHJM_magnet_tetrahedron", field |-> field,
                observers |-> observers, vertices |-> vertices,
                polarization |-> polarization, in_out |-> in_out]
    /\ ret' = BHJM_magnet_tetrahedron(field, observers, vertices, polarization, in_out)
    /\ LET st == BHJM_magnet_tetrahedron_stores(ret', field, observers, vertices,
                                                polarization, in_out)
       IN  /\ observers' = Stored("observers", observers, st)
           /\ vertices' = Stored("vertices", vertices, st)
           /\ polarization' = Stored("polarization", polarization, st)
    /\ UNCHANGED <<diameter, current, obj, keywords>>

\* the caller calls again, with the same field and policy, on the arrays as
\* the previous call left them
RepeatTetra ==
    /\ call.fn = "BHJM_magnet_tetrahedron"
    /\ call' = [fn |-> "BHJM_magnet_tetrahedron", field |-> call.field,
                observers |-> observers, vertices |-> vertices,
                polarization |-> polarization, in_out |-> call.in_out]
    /\ ret' = BHJM_magnet_tetrahedron(call.field, observers, vertices, polarization,
                                      call.in_out)
    /\ LET st == BHJM_magnet_tetrahedron_stores(ret', call.field, observers, vertices,
                                                polarization, call.in_out)
       IN  /\ observers' = Stored("observers", observers, st)
           /\ vertices' = Stored("vertices", vertices, st)
           /\ polarization' = Stored("polarization", polarization, st)
    /\ UNCHANGED <<diameter, current, obj, keywords>>

\* the caller drops its arrays and starts a new batch
NewTetraBatch ==
    /\ call # NoCall
    /\ observers' = <<>>
    /\ vertices' = <<>>
    /\ polarization' = <<>>
    /\ call' = NoCall
    /\ ret' = NoRet
    /\ UNCHANGED <<diameter, current, obj, keywords>>

NextTetra ==
    \/ \E o \in TetraObservers, v \in TetraVertices, J \in Polarizations :
        AppendTetra(o, v, J)
    \/ \E f \in Fields, io \in InOuts : CallTetra(f, io)
    \/ RepeatTetra
    \/ NewTetraBatch

SpecTetra == InitTetra /\ [][NextTetra]_vars

\* a caller of both kernels, each called on a batch of its own
NextKernels ==
    \/ vertices = <<>> /\ NextLoop
    \/ diameter = <<>> /\ NextTetra

SpecKernels == InitLoop /\ [][NextKernels]_vars

(***************************************************************************)
(* Display styles (magpylib/_lib/display/style.py)                         *)
(*                                                                         *)
(* A Python value is a record with a tag t: a plain value ("leaf", v a     *)
(* string, None being "None"), a dict ("dict", items its entries), a style *)
(* object ("obj", cls its class, items its properties) or a raised         *)
(* exception ("raise", v its class).  Entries are a sequence of [k, val]   *)
(* in insertion order with distinct keys.  A str key is the sequence of    *)
(* its pieces: the maximal runs without an underscore, each as one string, *)
(* and the underscores.                                                    *)
(***************************************************************************)
Leaf(x) == [t |-> "leaf", cls |-> "", v |-> x, items |-> <<>>]
None == Leaf("None")
Dict(entries) == [t |-> "dict", cls |-> "", v |-> "", items |-> entries]
Obj(cls, entries) == [t |-> "obj", cls |-> cls, v |-> "", items |-> entries]
Raise(exc) == [t |-> "raise", cls |-> "", v |-> exc, items |-> <<>>]
Item(k, val) == [k |-> k, val |-> val]

\* k in d
Has(d, k) == \E i \in DOMAIN d : d[i].k = k

\* d[k]
Get(d, k) == d[CHOOSE i \in DOMAIN d : d[i].k = k].val

\* d[k] = val
SetItem(d, k, val) ==
    IF Has(d, k) THEN [i \in DOMAIN d |-> IF d[i].k = k THEN Item(k, val) ELSE d[i]]
    ELSE Append(d, Item(k, val))

\* d.update(u)
RECURSIVE dict_update(_, _)
dict_update(d, u) ==
    IF u = <<>> THEN d
    ELSE dict_update(SetItem(d, Head(u).k, Head(u).val), Tail(u))

\* k.split("_")
RECURSIVE split(_)
split(k) ==
    IF \A i \in DOMAIN k : k[i] # "_" THEN <<k>>
    ELSE LET i == CHOOSE i \in DOMAIN k : k[i] = "_" /\ \A j \in 1..(i - 1) : k[j] # "_"
         IN  <<SubSeq(k, 1, i - 1)>> \o split(SubSeq(k, i + 1, Len(k)))

\* "_".join(keys) for a non-empty list
RECURSIVE join(_)
join(keys) ==
    IF Len(keys) = 1 THEN keys[1]
    ELSE keys[1] \o <<"_">> \o join(Tail(keys))

\* mutant: line 42 for every key with an underscore, without the merge of
\* lines 39-40
magic_to_dict_loop_no_merge(kwargs, new_kwargs) ==
    LET keys == split(Head(kwargs).k)
        v    == Head(kwargs).val
    IN  IF Len(keys) = 1 THEN SetItem(new_kwargs, keys[1], v)
        ELSE SetItem(new_kwargs, keys[1], Dict(<<Item(join(Tail(keys)), v)>>))

\* lines 34-42: one pass of the first loop of magic_to_dict
magic_to_dict_loop(kwargs, new_kwargs) ==
    LET keys == split(Head(kwargs).k)
        v    == Head(kwargs).val
        val  == <<Item(join(Tail(keys)), v)>>
    IN  IF Len(keys) = 1 THEN SetItem(new_kwargs, keys[1], v)
        ELSE IF Has(new_kwargs, keys[1]) /\ Get(new_kwargs, keys[1]).t = "dict"
        THEN SetItem(new_kwargs, keys[1],
                     Dict(dict_update(Get(new_kwargs, keys[1]).items, val)))
        ELSE SetItem(new_kwargs, keys[1], Dict(val))

\* lines 32-42: the first loop
RECURSIVE magic_to_dict_first(_, _)
magic_to_dict_first(kwargs, new_kwargs) ==
    IF kwargs = <<>> THEN new_kwargs
    ELSE magic_to_dict_first(Tail(kwargs), magic_to_dict_loop(kwargs, new_kwargs))

RECURSIVE magic_to_dict(_)
magic_to_dict(kwargs) ==
    LET new_kwargs == magic_to_dict_first(kwargs, <<>>)
    IN  [i \in DOMAIN new_kwargs |->
            IF new_kwargs[i].val.t = "dict"
            THEN Item(new_kwargs[i].k, Dict(magic_to_dict(new_kwargs[i].val.items)))
            ELSE new_kwargs[i]]

\* update_nested_dict.  A d that is no mapping is a plain value: `k in d`
\* raises TypeError on None and is a substring test on a str, which no key
\* of the model passes.
RECURSIVE update_nested_dict(_, _, _, _)
update_nested_dict(d, u, same_keys_only, replace_None_only) ==
    IF u = <<>> \/ d.t = "raise" THEN d
    ELSE LET k == Head(u).k
             v == Head(u).val
             r == update_nested_dict(IF Has(d.items, k) THEN Get(d.items, k) ELSE Dict(<<>>),
                                     v.items, same_keys_only, replace_None_only)
         IN  update_nested_dict(
                 IF d.t # "dict"
                 THEN IF d = None THEN Raise("TypeError")
                      ELSE IF same_keys_only THEN d
                      ELSE Dict(<<Item(k, v)>>)
                 ELSE IF ~Has(d.items, k) /\ same_keys_only THEN d
                 ELSE IF v.t = "dict"
                 THEN IF r.t = "raise" THEN r ELSE Dict(SetItem(d.items, k, r))
                 ELSE IF ~Has(d.items, k) THEN Raise("KeyError")
                 ELSE IF Get(d.items, k) = None \/ ~replace_None_only
                 THEN Dict(SetItem(d.items, k, v))
                 ELSE d,
                 Tail(u), same_keys_only, replace_None_only)

\* a property of a style class: its name and, where the setter builds a style
\* object from a dict or None, the class of that object ("" otherwise)
Prop(name, cls) == [name |-> <<name>>, cls |-> cls]

\* the properties of each class in the order of dir(), in which
\* _property_names_generator yields them
Properties(cls) ==
    CASE cls = "BaseStyle" ->
            <<Prop("color", ""), Prop("description", ""), Prop("mesh3d", "Mesh3dStyle"),
              Prop("name", ""), Prop("opacity", ""), Prop("path", "PathTraceStyle")>>
      [] cls = "Mesh3dStyle" -> <<Prop("data", ""), Prop("show", "")>>
      [] cls = "MagnetizationStyle" ->
            <<Prop("color", "MagColor"), Prop("show", ""), Prop("size", "")>>
      [] cls = "MagColor" ->
            <<Prop("middle", ""), Prop("north", ""), Prop("south", ""),
              Prop("transition", "")>>
      [] cls = "MagnetStyle" ->
            <<Prop("color", ""), Prop("description", ""),
              Prop("magnetization", "MagnetizationStyle"), Prop("mesh3d", "Mesh3dStyle"),
              Prop("name", ""), Prop("opacity", ""), Prop("path", "PathTraceStyle")>>
      [] cls = "SensorStyle" ->
            <<Prop("color", ""), Prop("description", ""), Prop("mesh3d", "Mesh3dStyle"),
              Prop("name", ""), Prop("opacity", ""), Prop("path", "PathTraceStyle"),
              Prop("pixel", "PixelStyle"), Prop("size", "")>>
      [] cls = "PixelStyle" -> <<Prop("color", ""), Prop("size", "")>>
      [] cls = "CurrentStyle" ->
            <<Prop("color", ""), Prop("current", "ArrowStyle"), Prop("description", ""),
              Prop("mesh3d", "Mesh3dStyle"), Prop("name", ""), Prop("opacity", ""),
              Prop("path", "PathTraceStyle")>>
      [] cls = "ArrowStyle" -> <<Prop("show", ""), Prop("size", "")>>
      [] cls = "MarkerStyle" -> <<Prop("color", ""), Prop("size", ""), Prop("symbol", "")>>
      [] cls = "MarkerTraceStyle" -> <<Prop("marker", "MarkerStyle"), Prop("opacity", "")>>
      [] cls = "DipoleStyle" ->
            <<Prop("color", ""), Prop("description", ""),
              Prop("magnetization", "MagnetizationStyle"), Prop("mesh3d", "Mesh3dStyle"),
              Prop("name", ""), Prop("opacity", ""), Prop("path", "PathTraceStyle"),
              Prop("size", "")>>
      [] cls = "PathTraceStyle" -> <<Prop("line", "LineStyle"), Prop("marker", "MarkerStyle")>>
      [] cls = "LineStyle" -> <<Prop("color", ""), Prop("style", ""), Prop("width", "")>>

\* the keyword defaults of a class's __init__ that are not None
signature(cls) == IF cls = "PixelStyle" THEN <<Item(<<"size">>, Leaf("1"))>> ELSE <<>>

\* the first exception among the values of the entries, if any
Raised_in(entries) ==
    IF \E i \in DOMAIN entries : entries[i].val.t = "raise"
    THEN {entries[CHOOSE i \in DOMAIN entries :
                     /\ entries[i].val.t = "raise"
                     /\ \A j \in 1..(i - 1) : entries[j].val.t # "raise"].val}
    ELSE {}

RECURSIVE BaseStyleProperties_init(_, _)

\* setattr(self, p.name, val): the property setters.  Plain values of the
\* model pass the assertions of their setters and are stored as given.
setattr(p, val) ==
    IF p.cls = "" THEN val
    ELSE IF val.t = "dict" THEN BaseStyleProperties_init(p.cls, val.items)
    ELSE IF val.t = "obj" /\ val.cls = p.cls THEN val
    ELSE IF val = None THEN BaseStyleProperties_init(p.cls, <<>>)
    ELSE Raise("ValueError")

\* the setter of property `name` of class cls, which holds no style object,
\* given a dict: name and description store str(val); the colours of the
\* object styles, of PixelStyle and of MagColor go through color_validator
\* (ValueError); opacity, show, data, transition and the sizes of
\* MagnetizationStyle, PixelStyle and SensorStyle are asserted to be numbers
\* or booleans (AssertionError); the other setters store what they are given
setter_on_dict(cls, name, val) ==
    IF name \in {<<"name">>, <<"description">>} THEN Leaf("str(dict)")
    ELSE IF \/ name \in {<<"middle">>, <<"north">>, <<"south">>}
            \/ name = <<"color">> /\ cls \notin {"LineStyle", "MarkerStyle"}
    THEN Raise("ValueError")
    ELSE IF \/ name \in {<<"opacity">>, <<"show">>, <<"data">>, <<"transition">>}
            \/ name = <<"size">> /\ cls \in {"MagnetizationStyle", "PixelStyle", "SensorStyle"}
    THEN Raise("AssertionError")
    ELSE val

\* setattr(self, p.name, val) on an object of class cls
setattr_on(cls, p, val) ==
    IF p.cls = "" /\ val.t = "dict" THEN setter_on_dict(cls, p.name, val)
    ELSE setattr(p, val)

\* `for k, v in input_dict.items(): setattr(self, k, v)` on an object of
\* class cls; a key that is no property raises AttributeError
setattrs(cls, input_dict) ==
    LET names   == {Properties(cls)[j].name : j \in DOMAIN Properties(cls)}
        entries == [j \in DOMAIN Properties(cls) |->
                      Item(Properties(cls)[j].name,
                           setattr_on(cls, Properties(cls)[j],
                                      IF Has(input_dict, Properties(cls)[j].name)
                                      THEN Get(input_dict, Properties(cls)[j].name)
                                      ELSE None))]
    IN  IF \E i \in DOMAIN input_dict : input_dict[i].k \notin names
        THEN Raise("AttributeError")
        ELSE IF Raised_in(entries) # {} THEN CHOOSE e \in Raised_in(entries) : TRUE
        ELSE Obj(cls, entries)

\* cls(**kwargs): the __init__ of the class hands its keyword defaults and
\* kwargs to BaseStyleProperties.__init__
BaseStyleProperties_init(cls, kwargs) ==
    setattrs(cls, magic_to_dict(dict_update(signature(cls), kwargs)))

\* self.as_dict()
RECURSIVE as_dict(_)
as_dict(self) ==
    [i \in DOMAIN self.items |->
        IF self.items[i].val.t = "obj"
        THEN Item(self.items[i].k, Dict(as_dict(self.items[i].val)))
        ELSE self.items[i]]

\* self.update(_match_properties=..., _replace_None_only=..., **kwargs):
\* the object afterwards
update(self, kwargs, _match_properties, _replace_None_only) ==
    LET arg      == IF kwargs # <<>> THEN dict_update(<<>>, magic_to_dict(kwargs)) ELSE <<>>
        new_dict == update_nested_dict(Dict(as_dict(self)), arg,
                                       ~_match_properties, _replace_None_only)
    IN  IF new_dict.t = "raise" THEN new_dict ELSE setattrs(self.cls, new_dict.items)

\* self.copy()
copy(self) == BaseStyleProperties_init(self.cls, as_dict(self))

\* an attribute of Config: a default, never None, and a value its setter
\* stores as given
Config(attr) == Leaf("Config." \o attr)

\* lines 94-128
styles_by_familly ==
    <<Item(<<"sensor">>,
           <<Item(<<"size">>, Config("SENSOR_SIZE")),
             Item(<<"pixel">>, Dict(<<Item(<<"size">>, Config("SENSOR_PIXEL_SIZE")),
                                      Item(<<"color">>, Config("SENSOR_PIXEL_COLOR"))>>))>>),
      Item(<<"dipole">>, <<Item(<<"size">>, Config("DIPOLE_SIZE"))>>),
      Item(<<"current">>,
           <<Item(<<"current">>, Dict(<<Item(<<"show">>, Config("CURRENT_SHOW")),
                                        Item(<<"size">>, Config("CURRENT_SIZE"))>>))>>),
      Item(<<"markers">>,
           <<Item(<<"marker">>, Dict(<<Item(<<"size">>, Config("MARKER_SIZE")),
                                       Item(<<"color">>, Config("MARKER_COLOR")),
                                       Item(<<"symbol">>, Config("MARKER_SYMBOL"))>>))>>),
      Item(<<"magnet">>,
           <<Item(<<"magnetization">>,
                  Dict(<<Item(<<"show">>, Config("MAGNETIZATION_SHOW")),
                         Item(<<"size">>, Config("MAGNETIZATION_SIZE")),
                         Item(<<"color">>,
                              Dict(<<Item(<<"north">>, Config("MAGNETIZATION_COLOR_NORTH")),
                                     Item(<<"middle">>, Config("MAGNETIZATION_COLOR_MIDDLE")),
                                     Item(<<"south">>, Config("MAGNETIZATION_COLOR_SOUTH")),
                                     Item(<<"transition">>,
                                          Config("MAGNETIZATION_COLOR_TRANSITION"))>>))>>))>>),
      Item(<<"all">>,
           <<Item(<<"path">>,
                  Dict(<<Item(<<"line">>, Dict(<<Item(<<"width">>, Config("PATH_LINE_WIDTH")),
                                                 Item(<<"style">>, Config("PATH_LINE_STYLE"))>>)),
                         Item(<<"marker">>,
                              Dict(<<Item(<<"size">>, Config("PATH_MARKER_SIZE")),
                                     Item(<<"symbol">>, Config("PATH_MARKER_SYMBOL"))>>))>>)),
             Item(<<"description">>, Config("AUTO_DESCRIPTION")),
             Item(<<"opacity">>, Config("OPACITY"))>>)>>

\* lines 129-142: objects_families.get(obj_type, [])
objects_families(obj_type) ==
    CASE obj_type \in {"Line", "Circular"} -> <<"current">>
      [] obj_type \in {"Cuboid", "Cylinder", "Sphere", "CylinderSegment"} -> <<"magnet">>
      [] obj_type = "Sensor" -> <<"sensor">>
      [] obj_type = "Dipole" -> <<"dipole", "magnet">>
      [] obj_type = "Marker" -> <<"markers">>
      [] OTHER -> <<>>

\* lines 144-151: the entries of the families after those of "all"
RECURSIVE families_dict(_, _)
families_dict(d, obj_families) ==
    IF obj_families = <<>> THEN d
    ELSE families_dict(dict_update(d, Get(styles_by_familly, <<Head(obj_families)>>)),
                       Tail(obj_families))

\* k.startswith("style") and k != "style", for the keys of the model: "style"
\* alone or "style_" and more
is_style_keyword(k) == Len(k) > 1 /\ k[1] = "style" /\ k[2] = "_"

\* lines 88-91
get_style_kwargs(kwargs) ==
    LET magic == SelectSeq(kwargs, LAMBDA e : is_style_keyword(e.k))
    IN  dict_update(IF Has(kwargs, <<"style">>) THEN Get(kwargs, <<"style">>).items ELSE <<>>,
                    [i \in DOMAIN magic |->
                        Item(SubSeq(magic[i].k, 3, Len(magic[i].k)), magic[i].val)])

\* get_style(obj, **kwargs) for an object of type obj_type with style
\* obj_style (None where it has none): the style returned, or the exception
get_style(obj_type, obj_style, kwargs) ==
    LET style_kwargs   == get_style_kwargs(kwargs)
        obj_style_dict == families_dict(Get(styles_by_familly, <<"all">>),
                                        objects_families(obj_type))
        style          == IF obj_style # None THEN copy(obj_style)
                          ELSE BaseStyleProperties_init("BaseStyle", <<>>)
        supplied       == IF style.t = "raise" THEN style
                          ELSE update(style, style_kwargs, FALSE, FALSE)
    IN  IF supplied.t = "raise" THEN supplied
        ELSE update(supplied, obj_style_dict, FALSE, TRUE)

\* the object that get_style's updates act on: obj.style itself ("obj.style")
\* or another object ("new")
get_style_target(obj_style) == "new"

(***************************************************************************)
(* The caller of the style functions                                       *)
(***************************************************************************)
\* Most keywords the caller collects for one call.
MaxKeywords == 2

\* The display objects: obj._object_type and the class of obj.style ("" for
\* an object that has neither).
DisplayObjects ==
    <<[type |-> "Sensor", cls |-> "SensorStyle"],
      [type |-> "Cylinder", cls |-> "MagnetStyle"],
      [type |-> "None", cls |-> ""]>>

\* What the caller sets on obj.style before the call.
StyleSettings ==
    <<Item(<<"name">>, Leaf("own")),
      Item(<<"opacity">>, Leaf("1")),
      Item(<<"path", "_", "line", "_", "width">>, Leaf("9")),
      Item(<<"pixel", "_", "size">>, None)>>

\* The style keywords of a call, in magic underscore notation or as a dict.
StyleKeywords ==
    <<Item(<<"name">>, Leaf("given")),
      Item(<<"opacity">>, Leaf("0")),
      Item(<<"opacity">>, None),
      Item(<<"path", "_", "line", "_", "width">>, Leaf("2")),
      Item(<<"path", "_", "line", "_", "style">>, Leaf("dashed")),
      Item(<<"path">>, Dict(<<Item(<<"marker">>, Dict(<<Item(<<"size">>, Leaf("3"))>>))>>)),
      Item(<<"pixel", "_", "size">>, Leaf("4"))>>

InitStyle ==
    /\ observers = <<>>
    /\ diameter = <<>>
    /\ current = <<>>
    /\ vertices = <<>>
    /\ polarization = <<>>
    /\ call = NoCall
    /\ ret = NoRet
    /\ obj = NoObject
    /\ keywords = <<>>

\* a display object with the default style of its class
NewObject(o) ==
    /\ obj = NoObject
    /\ obj' = [type |-> o.type,
               style |-> IF o.cls = "" THEN None ELSE BaseStyleProperties_init(o.cls, <<>>)]
    /\ UNCHANGED <<observers, diameter, current, vertices, polarization, call, ret, keywords>>

\* obj.style.update(**{k: v})
SetStyle(setting) ==
    /\ call = NoCall
    /\ obj # NoObject
    /\ obj.style # None
    /\ update(obj.style, <<setting>>, TRUE, FALSE).t = "obj"
    /\ obj' = [obj EXCEPT !.style = update(obj.style, <<setting>>, TRUE, FALSE)]
    /\ UNCHANGED <<observers, diameter, current, vertices, polarization, call, ret, keywords>>

\* the caller collects one more keyword
AddKeyword(keyword) ==
    /\ call = NoCall
    /\ Len(keywords) < MaxKeywords
    /\ ~Has(keywords, keyword.k)
    /\ keywords' = Append(keywords, keyword)
    /\ UNCHANGED <<observers, diameter, current, vertices, polarization, call, ret, obj>>

\* magic_to_dict(keywords)
CallMagicToDict ==
    /\ call = NoCall
    /\ keywords # <<>>
    /\ call' = [fn |-> "magic_to_dict", kwargs |-> keywords]
    /\ ret' = [out |-> "returned", val |-> magic_to_dict(keywords)]
    /\ UNCHANGED <<observers, diameter, current, vertices, polarization, obj, keywords>>

\* get_style(obj, style={the first n keywords}, style_<k>=v for the others)
CallGetStyle(n) ==
    LET kwargs == (IF n > 0 THEN <<Item(<<"style">>, Dict(SubSeq(keywords, 1, n)))>>
                   ELSE <<>>)
                  \o [i \in 1..(Len(keywords) - n) |->
                        Item(<<"style", "_">> \o keywords[n + i].k, keywords[n + i].val)]
    IN  /\ call = NoCall
        /\ obj # NoObject
        /\ n \in 0..Len(keywords)
        /\ call' = [fn |-> "get_style", obj |-> obj, keywords |-> keywords,
                    kwargs |-> kwargs]
        /\ ret' = [out |-> IF get_style(obj.type, obj.style, kwargs).t = "raise"
                           THEN "raised" ELSE "returned",
                   val |-> get_style(obj.type, obj.style, kwargs)]
        /\ obj' = IF get_style_target(obj.style) = "obj.style" /\ ret'.out = "returned"
                  THEN [obj EXCEPT !.style = ret'.val]
                  ELSE obj
        /\ UNCHANGED <<observers, diameter, current, vertices, polarization, keywords>>

\* the caller is done with the result
NewStyleCall ==
    /\ call # NoCall
    /\ call' = NoCall
    /\ ret' = NoRet
    /\ keywords' = <<>>
    /\ UNCHANGED <<observers, diameter, current, vertices, polarization, obj>>

NextStyle ==
    \/ \E i \in DOMAIN DisplayObjects : NewObject(DisplayObjects[i])
    \/ \E i \in DOMAIN StyleSettings : SetStyle(StyleSettings[i])
    \/ \E i \in DOMAIN StyleKeywords : AddKeyword(StyleKeywords[i])
    \/ CallMagicToDict
    \/ \E n \in 0..MaxKeywords : CallGetStyle(n)
    \/ NewStyleCall

SpecStyle == InitStyle /\ [][NextStyle]_vars

(***************************************************************************)
(* Properties of current_circle_field                                      *)
(***************************************************************************)
\* the last call was current_circle_field with a field in fs, and it returned
LoopReturned(fs) ==
    /\ call.fn = "current_circle_field"
    /\ call.field \in fs
    /\ ret.out = "returned"

\* the four cases of instance i as the specification words them, from the
\* caller's inputs: radius zero; on the loop circle; on the axis off a real
\* loop; none of these
CaseRadiusZero(i) == call.diameter[i] = 0

CaseOnCircle(i) ==
    LET o == call.observers[i]
        d == call.diameter[i]
    IN  /\ d # 0
        /\ 4 * (o[1] * o[1] + o[2] * o[2]) = d * d
        /\ o[3] = 0

CaseOnAxis(i) ==
    LET o == call.observers[i]
    IN  o[1] = 0 /\ o[2] = 0 /\ call.diameter[i] # 0

CaseGeneral(i) == ~CaseRadiusZero(i) /\ ~CaseOnCircle(i) /\ ~CaseOnAxis(i)

\* C1: in a B or H call every instance is in exactly one of the four masks
\* (radius zero, on the circle, on axis, general), each mask is the case it
\* is named after, and Br/Bz of an instance are written by the branch of
\* its own case only (never for the first two cases).
C1_FourCasePartition ==
    LoopReturned({"B", "H"}) =>
        \A i \in Idx(call.diameter) :
            /\ Cardinality({m \in 1..4 : ret.masks[m][i]}) = 1
            /\ ret.masks[1][i] <=> CaseRadiusZero(i)
            /\ ret.masks[2][i] <=> CaseOnCircle(i)
            /\ ret.masks[3][i] <=> CaseOnAxis(i)
            /\ ret.masks[4][i] <=> CaseGeneral(i)
            /\ ret.wBr[i] = (IF CaseGeneral(i) THEN {"general"} ELSE {})
            /\ ret.wBz[i] = (IF CaseOnAxis(i) THEN {"axis"}
                             ELSE IF CaseGeneral(i) THEN {"general"} ELSE {})

\* a B call on a batch that mixes an on-circle instance with an on-axis one
C1_Witness ==
    /\ LoopReturned({"B"})
    /\ \E i, j \in Idx(call.diameter) :
        /\ CaseOnCircle(i) /\ ret.wBz[i] = {}
        /\ CaseOnAxis(j) /\ ret.wBz[j] = {"axis"}

\* C2: an instance of diameter 0 gets the zero vector, whatever its
\* observer and current, for each of B, H, M and J.
C2_ZeroDiameterZeroField ==
    LoopReturned({"B", "H", "M", "J"}) =>
        \A i \in Idx(call.diameter) :
            call.diameter[i] = 0 => ret.val[i] = Zero3

\* an H call with a zero-diameter loop observed at the origin, next to an
\* instance with a non-zero field
C2_Witness ==
    /\ LoopReturned({"H"})
    /\ \E i, j \in Idx(call.diameter) :
        /\ call.diameter[i] = 0
        /\ call.observers[i] = <<0, 0, 0>>
        /\ ret.val[i] = Zero3
        /\ ret.val[j] # Zero3

\* C3: an instance with r0 > 0 observed on the loop circle gets the zero
\* vector for B and H, and is handed neither to the on-axis branch nor to
\* the general branch.
C3_OnCircleZeroField ==
    LoopReturned({"B", "H"}) =>
        \A i \in Idx(call.diameter) :
            CaseOnCircle(i) =>
                /\ ret.val[i] = Zero3
                /\ ~ret.masks[3][i]
                /\ ~ret.masks[4][i]
                /\ i \notin ret.cel

\* a B call whose batch has an on-circle instance and a general-case one
C3_Witness ==
    /\ LoopReturned({"B"})
    /\ \E i, j \in Idx(call.diameter) :
        /\ CaseOnCircle(i) /\ ret.val[i] = Zero3
        /\ CaseGeneral(j) /\ j \in ret.cel

\* C4: for M and J the result is one zero vector per observer, and neither
\* the coordinate transform nor a mask nor cel_iter is evaluated.
C4_MJAllZero ==
    LoopReturned({"M", "J"}) =>
        /\ Len(ret.val) = Len(call.observers)
        /\ \A i \in Idx(call.observers) : ret.val[i] = Zero3
        /\ ~ret.cyl
        /\ ret.masks = <<>>
        /\ ret.cel = {}

\* an M call on a batch whose B field is not zero
C4_Witness ==
    /\ LoopReturned({"M"})
    /\ Len(call.observers) = MaxN
    /\ \E i \in Idx(call.observers) :
        B_cart(call.observers, call.diameter, call.current)[i] # Zero3

\* C5: the H result is the B result of the same inputs divided by MU0,
\* component by component, and the B result is the assembled Cartesian
\* field.
C5_HisBoverMU0 ==
    /\ LoopReturned({"H"}) =>
        \A i \in Idx(call.diameter) : \A c \in 1..3 :
            ret.val[i][c] =
                DivMU0(current_circle_field("B", call.observers, call.diameter,
                                            call.current).val[i][c], "utility")
    /\ LoopReturned({"B"}) =>
        ret.val = B_cart(call.observers, call.diameter, call.current)

\* an H call with a degenerate instance and one whose field carries 1/MU0
C5_Witness ==
    /\ LoopReturned({"H"})
    /\ \E i, j \in Idx(call.diameter) :
        /\ CaseRadiusZero(i)
        /\ ret.val[j][3].k = "num"
        /\ ret.val[j][3].mu0 = <<"utility">>

\* 0.6283185307179587 * r0^2 / (z^2 + r0^2)^(3/2) * current * 1e-6
\* with r0 = |diameter / 2|
OnAxisFormula(d, z, cur) ==
    TimesE6(TimesInt(
        Term([f |-> "axis", r0sq4 |-> Abs(d) * Abs(d),
              s4 |-> 4 * z * z + Abs(d) * Abs(d)]), cur))

\* C6: for B, an instance observed on the axis of a loop with r0 # 0 gets
\* Bx = By = 0 and Bz = the closed on-axis form, without cel_iter.
C6_OnAxisClosedForm ==
    LoopReturned({"B"}) =>
        \A i \in Idx(call.diameter) :
            CaseOnAxis(i) =>
                /\ ret.val[i] = <<Zero, Zero,
                                  OnAxisFormula(call.diameter[i], call.observers[i][3],
                                                call.current[i])>>
                /\ i \notin ret.cel

\* a B call with an on-axis instance off the loop plane, negative current
C6_Witness ==
    /\ LoopReturned({"B"})
    /\ \E i \in Idx(call.diameter) :
        /\ CaseOnAxis(i)
        /\ call.observers[i][3] # 0
        /\ call.current[i] < 0
        /\ ret.val[i][3].k = "num"

(***************************************************************************)
(* Properties of BHJM_magnet_tetrahedron                                   *)
(***************************************************************************)
\* the last call was BHJM_magnet_tetrahedron with a field in fs
TetraCalled(fs) ==
    /\ call.fn = "BHJM_magnet_tetrahedron"
    /\ call.field \in fs

TetraReturned(fs) == TetraCalled(fs) /\ ret.out = "returned"

\* the answer of point_inside for the call's arguments
InsideAtCall == point_inside(call.observers, call.vertices, call.in_out)

\* C7: for J each row is the instance's polarization if point_inside says
\* inside under the call's policy and the zero vector otherwise; for M the
\* same rows divided by MU0; the triangle kernel is not invoked.
C7_MJPolarizationInside ==
    TetraReturned({"J", "M"}) =>
        /\ \A i \in Idx(call.observers) :
            LET J == IF InsideAtCall.val[i] THEN PolVec(call.polarization[i])
                     ELSE ZeroVec
            IN  ret.val[i] = (IF call.field = "J" THEN J ELSE VecOverMU0(J))
        /\ ret.tri = <<>>

\* an M call under 'auto' with one observer inside and one outside
C7_Witness ==
    /\ TetraReturned({"M"})
    /\ call.in_out = "auto"
    /\ \E i, j \in Idx(call.observers) :
        /\ InsideAtCall.val[i]
        /\ ret.val[i] = [sum |-> <<>>, pol |-> call.polarization[i], mu0 |-> <<"scipy">>]
        /\ ~InsideAtCall.val[j]
        /\ ret.val[j] = ZeroVec

\* the contributions of the four faces of instance i, faces (0,2,1), (0,1,3),
\* (1,2,3), (0,3,2) of the tetrahedron in right-handed order
FaceSum(i) ==
    LET v == call.vertices[i]
        w == IF dets(v) < 0 THEN <<v[1], v[2], v[4], v[3]>> ELSE v
        T(a, b, c) == [f |-> call.field, o |-> call.observers[i],
                       v |-> <<w[a], w[b], w[c]>>, J |-> call.polarization[i]]
    IN  <<T(1, 3, 2), T(1, 2, 4), T(2, 3, 4), T(1, 4, 3)>>

\* C8: for H each row is the sum of the four face contributions; for B it is
\* that sum plus the instance's polarization where point_inside says inside,
\* and the bare sum elsewhere.
C8_BHFaceSum ==
    TetraReturned({"B", "H"}) =>
        \A i \in Idx(call.observers) :
            ret.val[i] =
                [sum |-> FaceSum(i),
                 pol |-> IF call.field = "B" /\ InsideAtCall.val[i]
                         THEN call.polarization[i] ELSE <<0, 0, 0>>,
                 mu0 |-> <<>>]

\* a B call under 'auto' on a left-handed tetrahedron seen from inside, next
\* to an instance seen from outside
C8_Witness ==
    /\ TetraReturned({"B"})
    /\ call.in_out = "auto"
    /\ \E i, j \in Idx(call.observers) :
        /\ dets(call.vertices[i]) < 0
        /\ InsideAtCall.val[i]
        /\ ret.val[i].pol = call.polarization[i]
        /\ ~InsideAtCall.val[j]
        /\ ret.val[j].pol = <<0, 0, 0>>

\* two calls end alike: both raise the same error or both return equal arrays
SameResult(a, b) ==
    /\ a.out = b.out
    /\ a.out = "returned" => a.val = b.val
    /\ a.out = "raised" => a.err = b.err

\* vertices with rows 2 and 3 exchanged in the tetrahedra of S
Swap23(verts, S) ==
    [i \in Idx(verts) |->
        IF i \in S THEN <<verts[i][1], verts[i][2], verts[i][4], verts[i][3]>>
        ELSE verts[i]]

C9_ChiralityInvarianceNonZeroVolume ==
    TetraCalled({"B", "H", "M", "J"}) =>
        \A S \in SUBSET Idx(call.vertices) :
            (\A i \in S : dets(call.vertices[i]) # 0) =>
                SameResult(ret,
                           BHJM_magnet_tetrahedron(call.field, call.observers,
                                                   Swap23(call.vertices, S),
                                                   call.polarization, call.in_out))

\* signed volume (times 6) of the tetrahedron a, b, c, d
Orient(a, b, c, d) == Det3(Sub3(b, a), Sub3(c, a), Sub3(d, a))

\* the four signed volumes obtained by putting p in the place of each vertex
SideVolumes(p, v) ==
    <<Orient(p, v[2], v[3], v[4]), Orient(v[1], p, v[3], v[4]),
      Orient(v[1], v[2], p, v[4]), Orient(v[1], v[2], v[3], p)>>

\* p lies in the open tetrahedron: on the inner side of each face
GenuinelyInterior(p, v) ==
    LET d == Orient(v[1], v[2], v[3], v[4])
    IN  d # 0 /\ \A k \in 1..4 : SideVolumes(p, v)[k] * d > 0

\* p lies off the closed tetrahedron: on the outer side of some face, or,
\* for a tetrahedron of zero volume, off its plane
GenuinelyExterior(p, v) ==
    LET d == Orient(v[1], v[2], v[3], v[4])
    IN  IF d # 0 THEN \E k \in 1..4 : SideVolumes(p, v)[k] * d < 0
        ELSE \E k \in 1..4 : SideVolumes(p, v)[k] # 0

AutoAtCall ==
    BHJM_magnet_tetrahedron(call.field, call.observers, call.vertices,
                            call.polarization, "auto")

\* C10: under 'inside' (resp. 'outside') point_inside answers all True
\* (resp. all False) without inverting anything, and the kernel's result
\* equals the 'auto' result on every batch whose observers are all
\* genuinely interior (resp. exterior), for every field type.
C10_ForcedPolicyAgreesWithAuto ==
    TetraCalled({"B", "H", "M", "J"}) =>
        /\ call.in_out = "inside" =>
            /\ InsideAtCall = [out |-> "returned", inv |-> FALSE,
                               val |-> [i \in Idx(call.observers) |-> TRUE]]
            /\ (\A i \in Idx(call.observers) :
                    GenuinelyInterior(call.observers[i], call.vertices[i]))
               => SameResult(ret, AutoAtCall)
        /\ call.in_out = "outside" =>
            /\ InsideAtCall = [out |-> "returned", inv |-> FALSE,
                               val |-> [i \in Idx(call.observers) |-> FALSE]]
            /\ (\A i \in Idx(call.observers) :
                    GenuinelyExterior(call.observers[i], call.vertices[i]))
               => SameResult(ret, AutoAtCall)

\* C10, off the tetrahedra of zero volume
C10_ForcedPolicyAgreesWithAutoNonZeroVolume ==
    (\A i \in Idx(vertices) : dets(vertices[i]) # 0) => C10_ForcedPolicyAgreesWithAuto

(***************************************************************************)
(* Properties of both kernels                                              *)
(***************************************************************************)
ValidFields == {"B", "H", "M", "J"}

\* C11: called with a field type outside {B, H, M, J}, either kernel raises
\* the check_field_input error and nothing else happens: no result array,
\* no mask, transform, inversion or triangle evaluation, and the caller's
\* arrays (the vertices in particular) are as they were.
C11_InvalidFieldRaisesFirst ==
    (call # NoCall /\ call.field \notin ValidFields) =>
        /\ ret.out = "raised"
        /\ ret.err = "check_field_input"
        /\ "val" \notin DOMAIN ret
        /\ observers = call.observers
        /\ call.fn = "current_circle_field" =>
            /\ DOMAIN ret = {"out", "err"}
            /\ diameter = call.diameter
            /\ current = call.current
        /\ call.fn = "BHJM_magnet_tetrahedron" =>
            /\ ~ret.inv
            /\ ret.tri = <<>>
            /\ vertices = call.vertices
            /\ polarization = call.polarization

\* field 'X' on a batch with a left-handed tetrahedron, which a B or H call
\* would have reordered
C11_Witness ==
    /\ call # NoCall
    /\ call.fn = "BHJM_magnet_tetrahedron"
    /\ call.field = "X"
    /\ ret.out = "raised"
    /\ \E i \in Idx(vertices) : dets(vertices[i]) < 0

\* C12: with a valid field type no kernel call raises, whatever the
\* geometry: zero diameter, observer on the loop circle, tetrahedron of
\* zero volume under 'auto'.
C12_NoDegeneracyRaises ==
    (/\ call # NoCall
     /\ call.field \in ValidFields
     /\ call.fn = "BHJM_magnet_tetrahedron" =>
            call.in_out \in {"auto", "inside", "outside"})
    => ret.out = "returned"

\* (sum of triangle rows + pol) / mu0 = sum of (triangle row / mu0) + pol / mu0
RowOverMU0(row) ==
    [sum |-> [k \in 1..Len(row.sum) |-> TriangleBoverMU0(row.sum[k])],
     pol |-> row.pol,
     mu0 |-> IF row.pol = <<0, 0, 0>> THEN row.mu0 ELSE Append(row.mu0, "scipy")]

\* row - J
RowMinus(row, J) == [row EXCEPT !.pol = Sub3(@, J)]

\* the B call with the arguments of the last call
BAtCall ==
    IF call.fn = "current_circle_field"
    THEN current_circle_field("B", call.observers, call.diameter, call.current)
    ELSE BHJM_magnet_tetrahedron("B", call.observers, call.vertices,
                                 call.polarization, call.in_out)

NonDegenerateTetrahedra == \A i \in Idx(call.vertices) : dets(call.vertices[i]) # 0

\* C13 as claimed: for both kernels the H result is the B result of the
\* same arguments divided by mu0, row by row, also for observers inside a
\* tetrahedron.
C13_HisBoverMU0Everywhere ==
    /\ LoopReturned({"H"}) =>
        \A i \in Idx(call.diameter) : \A c \in 1..3 :
            ret.val[i][c] = DivMU0(BAtCall.val[i][c], "utility")
    /\ (TetraReturned({"H"}) /\ NonDegenerateTetrahedra) =>
        /\ BAtCall.out = "returned"
        /\ \A i \in Idx(call.observers) : ret.val[i] = RowOverMU0(BAtCall.val[i])

\* C13 amended: H = B / mu0 for the loop kernel and for the tetrahedron
\* rows the B call does not treat as inside; for the rows it treats as
\* inside, H = (B - J) / mu0.
C13_HisBoverMU0OutsideMagnet ==
    /\ LoopReturned({"H"}) =>
        \A i \in Idx(call.diameter) : \A c \in 1..3 :
            ret.val[i][c] = DivMU0(BAtCall.val[i][c], "utility")
    /\ (TetraReturned({"H"}) /\ NonDegenerateTetrahedra) =>
        /\ BAtCall.out = "returned"
        /\ \A i \in Idx(call.observers) :
            ret.val[i] =
                IF InsideAtCall.val[i]
                THEN RowOverMU0(RowMinus(BAtCall.val[i], call.polarization[i]))
                ELSE RowOverMU0(BAtCall.val[i])

\* an H call under 'auto' with one observer inside its tetrahedron and one
\* outside
C13_Witness ==
    /\ TetraReturned({"H"})
    /\ NonDegenerateTetrahedra
    /\ call.in_out = "auto"
    /\ \E i, j \in Idx(call.observers) :
        /\ InsideAtCall.val[i]
        /\ BAtCall.val[i].pol = call.polarization[i]
        /\ ret.val[i] # RowOverMU0(BAtCall.val[i])
        /\ ~InsideAtCall.val[j]
        /\ ret.val[j] = RowOverMU0(BAtCall.val[j])

\* C14: after a call of current_circle_field, whatever the field type and
\* the cases of the batch, observers, diameter and current hold the values
\* they held before the call, and every assignment into an array made by
\* the call went to a local array (Br_tot, Bz_tot).
C14_LoopNoSideEffects ==
    call.fn = "current_circle_field" =>
        /\ observers = call.observers
        /\ diameter = call.diameter
        /\ current = call.current
        /\ LET st == current_circle_field_stores(call.field, call.observers,
                                                 call.diameter)
           IN  \A k \in DOMAIN st : st[k].buf \in {"Br_tot", "Bz_tot"}

\* a B call on a batch with a general-case instance off the loop plane whose
\* radius is not 1 (dividing z by r0 changes it) next to an on-axis one
C14_Witness ==
    /\ LoopReturned({"B"})
    /\ \E i, j \in Idx(call.diameter) :
        /\ CaseGeneral(i)
        /\ call.diameter[i] = 1
        /\ call.observers[i][3] = 1
        /\ i \in ret.cel
        /\ CaseOnAxis(j)
    /\ observers = call.observers

\* C15: a call of BHJM_magnet_tetrahedron leaves observers and polarization
\* as they were and returns an array that is none of its inputs; a
\* tetrahedron of vertices is either as it was or, for field B or H and
\* negative signed volume, has its vertices 2 and 3 exchanged; for field M
\* or J vertices is as it was.
C15_TetrahedronSideEffects ==
    call.fn = "BHJM_magnet_tetrahedron" =>
        /\ observers = call.observers
        /\ polarization = call.polarization
        /\ ret.out = "returned" => ret.buf \notin {"observers", "vertices", "polarization"}
        /\ \A i \in Idx(call.vertices) :
            \/ vertices[i] = call.vertices[i]
            \/ /\ call.field \in {"B", "H"}
               /\ dets(call.vertices[i]) < 0
               /\ vertices[i] = Swap23(call.vertices, {i})[i]
        /\ call.field \in {"M", "J"} => vertices = call.vertices

\* a J call under 'auto' that zeroed the row of an outside observer of a
\* left-handed tetrahedron
C15_Witness ==
    /\ TetraReturned({"J"})
    /\ call.in_out = "auto"
    /\ \E i \in Idx(call.observers) :
        /\ ~InsideAtCall.val[i]
        /\ ret.val[i] = ZeroVec
        /\ polarization[i] # <<0, 0, 0>>
        /\ dets(vertices[i]) < 0

C17_UnitLoopCentreIsExactlyOne ==
    LoopReturned({"H"}) =>
        \A i \in Idx(call.diameter) :
            (/\ call.diameter[i] = 1
             /\ call.current[i] = 1
             /\ call.observers[i] = <<0, 0, 0>>)
            => <<Float(ret.val[i][1]), Float(ret.val[i][2]), Float(ret.val[i][3])>>
               = <<FZero, FZero, FOne>>

(***************************************************************************)
(* Properties of current_loop_field                                        *)
(***************************************************************************)
\* current_circle_field called directly with the arguments of the last call
DirectAtCall == call_current_circle_field(call.args, call.kwargs)

\* C16: a call of current_loop_field issues exactly one
\* MagpylibDeprecationWarning, hands its positional and keyword arguments
\* on unchanged, and ends as current_circle_field ends for these arguments:
\* the same returned array or the same error; the warning is there also
\* when the forwarded call raises.
C16_AliasForwards ==
    call.fn = "current_loop_field" =>
        /\ ret.warned = <<"MagpylibDeprecationWarning">>
        /\ ret.forwarded = [args |-> call.args, kwargs |-> call.kwargs]
        /\ DOMAIN ret = DOMAIN DirectAtCall \cup {"warned", "forwarded"}
        /\ \A f \in DOMAIN DirectAtCall : ret[f] = DirectAtCall[f]

\* a call that gives the field type positionally next to the four
\* keywords: the forwarded call raises TypeError, after the warning
C16_Witness ==
    /\ call.fn = "current_loop_field"
    /\ call.args = <<"B">>
    /\ DOMAIN call.kwargs = ParameterNames
    /\ call.kwargs.field = "H"
    /\ ret.out = "raised"
    /\ ret.err = "TypeError"
    /\ ret.warned = <<"MagpylibDeprecationWarning">>

(***************************************************************************)
(* Properties of the display styles                                        *)
(***************************************************************************)
Missing == [t |-> "missing", cls |-> "", v |-> "", items |-> <<>>]

\* the value at a nested path of keys, Missing where the path leaves the value
RECURSIVE Lookup(_, _)
Lookup(value, path) ==
    IF path = <<>> THEN value
    ELSE IF value.t \in {"dict", "obj"} /\ Has(value.items, path[1])
    THEN Lookup(Get(value.items, path[1]), Tail(path))
    ELSE Missing

\* the plain values in the entries with the nested path each is given under:
\* the underscore-separated pieces of the keys on the way to it
RECURSIVE Leaves(_, _)
Leaves(entries, prefix) ==
    UNION {IF entries[i].val.t = "dict"
           THEN Leaves(entries[i].val.items, prefix \o split(entries[i].k))
           ELSE {[path |-> prefix \o split(entries[i].k), v |-> entries[i].val]}
           : i \in DOMAIN entries}

IsPrefix(p, q) == Len(p) <= Len(q) /\ SubSeq(q, 1, Len(p)) = p

\* no key of the entries is, piece by piece, the beginning of another, at any
\* depth
RECURSIVE NonColliding(_)
NonColliding(entries) ==
    /\ \A i, j \in DOMAIN entries :
          i # j => ~IsPrefix(split(entries[i].k), split(entries[j].k))
    /\ \A i \in DOMAIN entries :
          entries[i].val.t = "dict" => NonColliding(entries[i].val.items)

MagicReturned == call.fn = "magic_to_dict" /\ ret.out = "returned"

\* C19: for kwargs whose keys do not collide, every value is found in the
\* result of magic_to_dict at the nested path of the pieces of its key (a key
\* without underscore at top level), and the keys with the same first piece
\* are in one sub-dictionary under that piece.
C19_MagicToDictNests ==
    (MagicReturned /\ NonColliding(call.kwargs)) =>
        /\ \A s \in Leaves(call.kwargs, <<>>) : Lookup(Dict(ret.val), s.path) = s.v
        /\ \A i \in DOMAIN call.kwargs :
              Len(split(call.kwargs[i].k)) > 1
              => Lookup(Dict(ret.val), <<split(call.kwargs[i].k)[1]>>).t = "dict"
        /\ Len(ret.val) = Cardinality({split(call.kwargs[i].k)[1] : i \in DOMAIN call.kwargs})

C19_Witness ==
    /\ MagicReturned
    /\ NonColliding(call.kwargs)
    /\ \E i, j \in DOMAIN call.kwargs :
          /\ i # j
          /\ Len(split(call.kwargs[i].k)) = 3
          /\ Len(split(call.kwargs[j].k)) = 3
          /\ SubSeq(split(call.kwargs[i].k), 1, 2) = SubSeq(split(call.kwargs[j].k), 1, 2)
    /\ Len(ret.val) = 1

GetStyleReturned == call.fn = "get_style" /\ ret.out = "returned"

\* the Config default get_style has for a property of the object, if any
ConfigDefault(path) ==
    Lookup(Dict(families_dict(Get(styles_by_familly, <<"all">>),
                              objects_families(call.obj.type))), path)

\* the object's own value of a property at call time
OwnValue(path) ==
    IF call.obj.style = None THEN None ELSE Lookup(call.obj.style, path)

\* the value get_style should give the property at path, given the values
\* supplied for it
Resolved(path, supplied) ==
    IF supplied # {} THEN supplied
    ELSE IF OwnValue(path) # None THEN {OwnValue(path)}
    ELSE IF ConfigDefault(path) # Missing THEN {ConfigDefault(path)}
    ELSE {None}

\* C18: every property of the returned style has the value supplied through
\* the style keywords if one is; otherwise the object's own value if that is
\* not None; otherwise the Config default if there is one; and the object's
\* own style is as it was.
C18_StylePriority ==
    GetStyleReturned =>
        /\ obj = call.obj
        /\ \A leaf \in Leaves(as_dict(ret.val), <<>>) :
              leaf.v \in Resolved(leaf.path,
                                  {s.v : s \in {x \in Leaves(call.keywords, <<>>) :
                                                   x.path = leaf.path}})

\* the same for the calls whose keywords do not collide and supply no None
C18_StylePriorityOfValues ==
    (/\ GetStyleReturned
     /\ NonColliding(call.keywords)
     /\ \A s \in Leaves(call.keywords, <<>>) : s.v # None) => C18_StylePriority


(***************************************************************************)
(* current_circle_field on doubles: the masks and the divisors of the      *)
(* general case (lines 84-136) for one instance whose cylinder coordinates *)
(* are the doubles r and z, in the arithmetic the code performs.  The      *)
(* integer model above is the same code on small integers, where none of   *)
(* these operations rounds to zero.                                        *)
(***************************************************************************)
\* 2^j
TwoToThe(j) ==
    [neg |-> FALSE, m |-> ShiftLeft(<<1>>, MantissaBits - 1), e |-> j - (MantissaBits - 1)]

\* the literal 1e-15 of line 94
SingularTolerance == Dec(<<1>>, -15)

\* x ** 2
FSquare(x) == FMul(x, x)

\* r0 (line 84), mask1, mask2, mask3, mask5 (92-106) and, where mask5
\* holds, r, z (114-115), z2, x0 and q2 (118-121).  The other divisors are
\* np.sqrt(r), which is zero exactly when r is, p = 1 + np.sqrt(q2), which
\* is at least 1, and the literal 20.
general_case(r, z, dia) ==
    LET r0    == FAbs(FDiv(dia, FromInt(2)))
        m1    == r0 = FZero
        m2    == FLess(FAbs(FSub(r, r0)), FMul(SingularTolerance, r0)) /\ z = FZero
        m3    == r = FZero
        ratio == FDiv(r, r0)
        zr    == FDiv(z, r0)
        z2    == FSquare(zr)
        x0    == FAdd(z2, FSquare(FAdd(ratio, FOne)))
    IN  IF m1 \/ m2 \/ m3
        THEN [out |-> "returned", mask5 |-> FALSE, r0 |-> r0]
        ELSE [out |-> "returned", mask5 |-> TRUE, r0 |-> r0, r |-> ratio, z |-> zr,
              z2 |-> z2, x0 |-> x0,
              q2 |-> FDiv(FAdd(z2, FSquare(FSub(ratio, FOne))), x0)]

\* caller's inputs: radii on the axis, on the loop of diameter 2, one and
\* eight units in the last place off it, and away from it; heights in the
\* plane of the loop, near it and away from it
Radii == {FZero, FOne, FAdd(FOne, TwoToThe(-52)), FAdd(FOne, TwoToThe(-49)), FromInt(2)}
Heights == {FZero, FOne, FromInt(-1), TwoToThe(-600), FromInt(2)}
LoopDiameters == {FZero, FOne, FromInt(2), FromInt(-2), FromInt(4)}

InitGeneralCase == InitLoop

\* one call of current_circle_field for field B or H on a single instance
CallGeneralCase(r, z, d) ==
    /\ call = NoCall
    /\ call' = [fn |-> "general_case", r |-> r, z |-> z, diameter |-> d]
    /\ ret' = general_case(r, z, d)
    /\ UNCHANGED <<observers, diameter, current, vertices, polarization, obj, keywords>>

NewGeneralCase ==
    /\ call # NoCall
    /\ call' = NoCall
    /\ ret' = NoRet
    /\ UNCHANGED <<observers, diameter, current, vertices, polarization, obj, keywords>>

NextGeneralCase ==
    \/ \E r \in Radii, z \in Heights, d \in LoopDiameters : CallGeneralCase(r, z, d)
    \/ NewGeneralCase

SpecGeneralCase == InitGeneralCase /\ [][NextGeneralCase]_vars

(***************************************************************************)
(* Properties of the general case                                          *)
(***************************************************************************)
GeneralCaseReturned == call.fn = "general_case" /\ ret.mask5

\* C21: every instance of the general-case branch has r0 > 0, r > 0 and is
\* not on the singular circle, and every divisor used there (r0, x0,
\* sqrt(r), q2, p, r) is non-zero, so that no division by zero arises
C21_GeneralCaseDivisorsNonZero ==
    GeneralCaseReturned =>
        /\ call.diameter # FZero /\ call.r # FZero
        /\ ~(FDiv(call.diameter, FromInt(2)) \in {call.r, FNeg(call.r)} /\ call.z = FZero)
        /\ ret.r0 # FZero /\ ret.x0 # FZero /\ ret.r # FZero /\ ret.q2 # FZero

\* the part of C21 that holds: the instance is off the axis, off the
\* singular circle and the radius of its loop is not zero, and r0, x0 and
\* r are non-zero
C21_GeneralCaseOffTheSpecialCases ==
    GeneralCaseReturned =>
        /\ call.diameter # FZero /\ call.r # FZero
        /\ ~(FDiv(call.diameter, FromInt(2)) \in {call.r, FNeg(call.r)} /\ call.z = FZero)
        /\ ret.r0 # FZero /\ ret.x0 # FZero /\ ret.r # FZero

\* an instance of the general case on the cylinder of the loop, so close to
\* its plane that z**2 is zero
C21_Underflow == GeneralCaseReturned /\ ret.z # FZero /\ ret.z2 = FZero

(***************************************************************************)
(* point_inside on doubles (lines 53-62), for tetrahedra whose edges from  *)
(* vertex 0 run along the coordinate axes: mat then has one non-zero entry *)
(* in each row and column, np.linalg.inv is its transpose with every       *)
(* non-zero entry d replaced by the double 1 / d, and newp[k] is that      *)
(* double times one coordinate of point - vertices[0].  point_inside above *)
(* is the same code where no operation rounds.                             *)
(***************************************************************************)
\* np.sum adds the three components in one of two orders, depending on how
\* the reduction loop of the numpy build runs
SumOrders == {"left_to_right", "first_to_rest"}

np_sum(a, order) ==
    IF order = "left_to_right" THEN FAdd(FAdd(a[1], a[2]), a[3])
    ELSE FAdd(a[1], FAdd(a[2], a[3]))

\* the coordinate along which edge e runs
Axis(e) == CHOOSE j \in 1..3 : e[j] # 0

AxisAligned(v) ==
    /\ \A k \in 2..4 : Cardinality({j \in 1..3 : v[k][j] # v[1][j]}) = 1
    /\ Cardinality({Axis(Sub3(v[k], v[1])) : k \in 2..4}) = 3

\* newp = np.matmul(np.linalg.inv(mat), point - vertices[0])
newp_rounded(point, v) ==
    [k \in 1..3 |->
        LET e == Sub3(v[k + 1], v[1])
        IN  FMul(FDiv(FOne, FromInt(e[Axis(e)])), FromInt(point[Axis(e)] - v[1][Axis(e)]))]

\* np.all(newp >= 0) & np.all(newp <= 1) & (np.sum(newp) <= 1)
inside_rounded(point, v, order) ==
    LET q == newp_rounded(point, v)
    IN  /\ \A k \in 1..3 : ~FLess(q[k], FZero)
        /\ \A k \in 1..3 : ~FLess(FOne, q[k])
        /\ ~FLess(FOne, np_sum(q, order))

point_inside_rounded(points, verts, in_out, order) ==
    IF in_out = "inside"
    THEN [out |-> "returned", val |-> [i \in Idx(points) |-> TRUE], inv |-> FALSE]
    ELSE IF in_out = "outside"
    THEN [out |-> "returned", val |-> [i \in Idx(points) |-> FALSE], inv |-> FALSE]
    ELSE [out |-> "returned",
          val |-> [i \in Idx(points) |-> inside_rounded(points[i], verts[i], order)],
          inv |-> TRUE]

\* caller's inputs: the tetrahedra with vertex 0 at the origin and the other
\* three on the axes at distance L, in each order of these three
EdgeLengths == {4, 10}

Corners(L) == <<<<L, 0, 0>>, <<0, L, 0>>, <<0, 0, L>>>>

Orders == {p \in [1..3 -> 1..3] : \A a, b \in 1..3 : a # b => p[a] # p[b]}

AxisTetrahedra ==
    {<<<<0, 0, 0>>, Corners(L)[p[1]], Corners(L)[p[2]], Corners(L)[p[3]]>> :
        L \in EdgeLengths, p \in Orders}

\* inside both solids, on the far face of one of them, on a near face, at
\* vertices, outside both
InsideObservers ==
    {<<1, 1, 1>>, <<1, 2, 7>>, <<7, 1, 2>>, <<2, 2, 0>>, <<0, 0, 0>>, <<4, 0, 0>>,
     <<0, 10, 0>>, <<5, 5, 0>>, <<-1, 1, 1>>, <<4, 4, 4>>}

InitInside == InitLoop

\* one call of point_inside on a single instance
CallPointInside(o, v, in_out, order) ==
    /\ call = NoCall
    /\ call' = [fn |-> "point_inside", points |-> <<o>>, vertices |-> <<v>>,
                in_out |-> in_out, order |-> order]
    /\ ret' = point_inside_rounded(<<o>>, <<v>>, in_out, order)
    /\ UNCHANGED <<observers, diameter, current, vertices, polarization, obj, keywords>>

NewPointInside ==
    /\ call # NoCall
    /\ call' = NoCall
    /\ ret' = NoRet
    /\ UNCHANGED <<observers, diameter, current, vertices, polarization, obj, keywords>>

NextInside ==
    \/ \E o \in InsideObservers, v \in AxisTetrahedra, io \in InOuts, order \in SumOrders :
            CallPointInside(o, v, io, order)
    \/ NewPointInside

SpecInside == InitInside /\ [][NextInside]_vars

(***************************************************************************)
(* Properties of point_inside                                              *)
(***************************************************************************)
\* p lies in the closed tetrahedron: on no face's outer side
InClosedTetrahedron(p, v) ==
    LET d == Orient(v[1], v[2], v[3], v[4])
    IN  \A k \in 1..4 : SideVolumes(p, v)[k] * d >= 0

\* v with its vertices 1..3 in the order p
Reordered(v, p) == <<v[1], v[1 + p[1]], v[1 + p[2]], v[1 + p[3]]>>

AutoInsideReturned == call.fn = "point_inside" /\ call.in_out = "auto"

\* C22: for a non-degenerate tetrahedron and in_out = 'auto', point_inside
\* returns True for an observer exactly when it lies in the closed
\* tetrahedron, its faces, edges and vertices included, and the answer is
\* the same for every order of the vertices 1..3
C22_InsideIsClosedTetrahedron ==
    AutoInsideReturned =>
        /\ ret.val[1] = InClosedTetrahedron(call.points[1], call.vertices[1])
        /\ \A p \in Orders :
            point_inside_rounded(call.points, <<Reordered(call.vertices[1], p)>>,
                                 "auto", call.order).val = ret.val

\* C22 for the observers off the faces: those in the open tetrahedron are
\* inside and those off the closed one are not, in every order of the
\* vertices 1..3
C22_InsideOffTheFaces ==
    AutoInsideReturned =>
        \A p \in Orders :
            LET a == point_inside_rounded(call.points, <<Reordered(call.vertices[1], p)>>,
                                          "auto", call.order).val[1]
            IN  /\ GenuinelyInterior(call.points[1], call.vertices[1]) => a
                /\ GenuinelyExterior(call.points[1], call.vertices[1]) => ~a

\* an observer on the far face that is found outside
C22_FaceFoundOutside ==
    /\ AutoInsideReturned
    /\ InClosedTetrahedron(call.points[1], call.vertices[1])
    /\ ~ret.val[1]

(***************************************************************************)
(* Properties of the triangle batch of BHJM_magnet_tetrahedron             *)
(***************************************************************************)
\* the vertex triples of lines 136-139, counted from 1
Faces == <<<<1, 3, 2>>, <<1, 2, 4>>, <<2, 3, 4>>, <<1, 4, 3>>>>

\* the call got as far as the triangle kernel
TriangleBatchBuilt == TetraCalled({"B", "H"}) /\ ret.tri # <<>>

\* C23: in the batch of 4n rows handed to the triangle kernel, row k*n+i of
\* the tiled observers is observer i, of the tiled polarization is
\* polarization i, and of the triangle vertices is face k of tetrahedron i
\* after chirality normalisation; result row i is the sum of the triangle
\* rows i, n+i, 2n+i, 3n+i, in this order
C23_BatchCoIndexed ==
    TriangleBatchBuilt =>
        LET n == Len(call.observers)
            w == check_chirality(call.vertices)
            tri_field == BHJM_triangle(call.field, ret.tri.o, ret.tri.v, ret.tri.J)
        IN  /\ Len(ret.tri.o) = 4 * n /\ Len(ret.tri.v) = 4 * n /\ Len(ret.tri.J) = 4 * n
            /\ \A k \in 0..3 : \A i \in 1..n :
                /\ ret.tri.o[k * n + i] = call.observers[i]
                /\ ret.tri.J[k * n + i] = call.polarization[i]
                /\ ret.tri.v[k * n + i] =
                       <<w[i][Faces[k + 1][1]], w[i][Faces[k + 1][2]], w[i][Faces[k + 1][3]]>>
            /\ ret.out = "returned" =>
                \A i \in 1..n :
                    ret.val[i].sum = <<tri_field[i], tri_field[n + i],
                                       tri_field[2 * n + i], tri_field[3 * n + i]>>

\* a returned batch of two instances that differ in observer, polarization
\* and tetrahedron, one of them left-handed
C23_Witness ==
    /\ TriangleBatchBuilt /\ ret.out = "returned"
    /\ Len(call.observers) = 2
    /\ call.observers[1] # call.observers[2]
    /\ call.polarization[1] # call.polarization[2]
    /\ call.vertices[1] # call.vertices[2]
    /\ dets(call.vertices[1]) < 0

\* the vertex of tetrahedron v that face f leaves out
Omitted(f, v) == {d \in {v[1], v[2], v[3], v[4]} : d \notin {f[1], f[2], f[3]}}

\* C24: the four faces handed to the triangle kernel each leave out exactly
\* one vertex of their tetrahedron and each vertex is left out by exactly one
\* face; for a tetrahedron of positive signed volume (every non-degenerate
\* one after check_chirality) the normal (b - a) x (c - a) of each face
\* (a, b, c) points away from the vertex it leaves out
C24_FacesOutward ==
    /\ \A k \in 1..4 : Cardinality((1..4) \ {Faces[k][1], Faces[k][2], Faces[k][3]}) = 1
    /\ \A d \in 1..4 :
        Cardinality({k \in 1..4 : d \notin {Faces[k][1], Faces[k][2], Faces[k][3]}}) = 1
    /\ TriangleBatchBuilt =>
        LET n == Len(call.observers)
        IN  \A i \in 1..n :
                /\ \A k \in 0..3 :
                    ret.tri.v[k * n + i] =
                        <<ret.verts[i][Faces[k + 1][1]], ret.verts[i][Faces[k + 1][2]],
                          ret.verts[i][Faces[k + 1][3]]>>
                /\ dets(ret.verts[i]) > 0 =>
                    /\ \A k \in 0..3 :
                        LET f == ret.tri.v[k * n + i]
                        IN  /\ Cardinality(Omitted(f, ret.verts[i])) = 1
                            /\ \A d \in Omitted(f, ret.verts[i]) :
                                   Orient(f[1], f[2], f[3], d) < 0
                    /\ \A d \in {ret.verts[i][j] : j \in 1..4} :
                        Cardinality({k \in 0..3 :
                            d \in Omitted(ret.tri.v[k * n + i], ret.verts[i])}) = 1

\* a batch with a tetrahedron given right-handed and one given left-handed
C24_Witness ==
    /\ TriangleBatchBuilt
    /\ \E i \in Idx(call.vertices) : dets(call.vertices[i]) < 0 /\ dets(ret.verts[i]) > 0
    /\ \E i \in Idx(call.vertices) : dets(call.vertices[i]) > 0

(***************************************************************************)
(* Properties of the batch as a whole                                      *)
(***************************************************************************)
\* the call of the same kernel on instance i alone
AloneAtCall(i) ==
    IF call.fn = "current_circle_field"
    THEN current_circle_field(call.field, <<call.observers[i]>>, <<call.diameter[i]>>,
                              <<call.current[i]>>)
    ELSE BHJM_magnet_tetrahedron(call.field, <<call.observers[i]>>, <<call.vertices[i]>>,
                                 <<call.polarization[i]>>, call.in_out)

KernelCalled ==
    /\ call.fn \in {"current_circle_field", "BHJM_magnet_tetrahedron"}
    /\ call.field \in ValidFields

\* C25: row i of the result of either kernel is determined by the inputs at
\* index i and the call-wide field and in_out alone: it is the row the
\* kernel returns for instance i on its own, whatever the other instances
\* of the batch are, and it stands at index i
C25_RowsIndependent ==
    KernelCalled =>
        \A i \in Idx(call.observers) :
            AloneAtCall(i).out = "returned" =>
                /\ ret.out = "returned"
                /\ Len(ret.val) = Len(call.observers)
                /\ ret.val[i] = AloneAtCall(i).val[1]

\* C25 for the calls that return
C25_RowsIndependentWhenReturned ==
    KernelCalled /\ ret.out = "returned" =>
        /\ Len(ret.val) = Len(call.observers)
        /\ \A i \in Idx(call.observers) :
            /\ AloneAtCall(i).out = "returned"
            /\ ret.val[i] = AloneAtCall(i).val[1]

\* a batch that raises although one of its instances alone returns
C25_RowLostToAnotherInstance ==
    /\ KernelCalled
    /\ ret.out = "raised"
    /\ \E i \in Idx(call.observers) : AloneAtCall(i).out = "returned"

(***************************************************************************)
(* Properties of the in_out policy                                         *)
(***************************************************************************)
Policies == {"auto", "inside", "outside"}

\* C26: an in_out value other than 'auto', 'inside', 'outside' is not
\* rejected: point_inside falls through to the geometric test and the call
\* ends as the call with in_out = 'auto' does, with the same result, the
\* same steps executed and the same vertices left to the caller
C26_UnknownPolicyIsAuto ==
    (TetraCalled(ValidFields) /\ call.in_out \notin Policies) =>
        /\ InsideAtCall = point_inside(call.observers, call.vertices, "auto")
        /\ ret = AutoAtCall
        /\ ret.out = "raised" => ret.err = "LinAlgError"

\* a returned call under an unknown policy whose observers are not all on
\* one side
C26_Witness ==
    /\ TetraReturned({"B", "M", "J"})
    /\ call.in_out \notin Policies
    /\ \E i \in Idx(call.observers) : InsideAtCall.val[i]
    /\ \E i \in Idx(call.observers) : ~InsideAtCall.val[i]

(***************************************************************************)
(* The vacuum permeability of the kernels                                  *)
(***************************************************************************)
\* mu_0 of scipy.constants, which field_BH_tetrahedron imports (line 6):
\* 4e-7 * pi up to scipy 1.3, the CODATA 2018 value 1.25663706212e-06 from
\* scipy 1.4 on, the CODATA 2022 value 1.25663706127e-06 in later releases
scipy_mu_0 ==
    {FMul(Dec(<<4>>, -7), np_pi),
     Dec(<<1, 2, 5, 6, 6, 3, 7, 0, 6, 2, 1, 2>>, -17),
     Dec(<<1, 2, 5, 6, 6, 3, 7, 0, 6, 1, 2, 7>>, -17)}

\* the values MU0 can have in the module a division names
MU0(mod) == IF mod = "utility" THEN {MU0_utility} ELSE scipy_mu_0

\* the modules whose MU0 the call divided a non-zero component by
DividedBy ==
    IF LoopReturned({"H"})
    THEN {ret.val[i][c].mu0[j] :
            <<i, c, j>> \in {t \in Idx(call.diameter) \X (1..3) \X (1..3) :
                                /\ ret.val[t[1]][t[2]].k \notin {"zero", "nan"}
                                /\ t[3] \in DOMAIN ret.val[t[1]][t[2]].mu0}}
    ELSE IF TetraReturned({"M"})
    THEN {ret.val[i].mu0[j] :
            <<i, j>> \in {t \in Idx(call.observers) \X (1..3) :
                                t[2] \in DOMAIN ret.val[t[1]].mu0}}
    ELSE {}

\* C27: the MU0 the loop kernel divides by for H and the MU0 the
\* tetrahedron kernel divides by for M are one and the same value, the
\* double 4 pi 1e-7 (MU0 of magpylib._src.utility)
C27_OneMU0 == \A mod \in DividedBy : \A v \in MU0(mod) : v = MU0_utility

\* an M call of the tetrahedron kernel that divided a polarization by MU0
C27_TetrahedronDivided == TetraReturned({"M"}) /\ DividedBy # {}

C29_HIgnoresPolicy ==
    TetraCalled({"H"}) =>
        /\ ret.out = "returned"
        /\ ~ret.inv
        /\ \A io \in InOuts :
            ret = BHJM_magnet_tetrahedron("H", call.observers, call.vertices,
                                          call.polarization, io)

\* an H call under 'auto' on a batch with a tetrahedron of zero volume, whose
\* edge matrix cannot be inverted, and an observer inside another tetrahedron
C29_Witness ==
    /\ TetraReturned({"H"})
    /\ call.in_out = "auto"
    /\ \E i \in Idx(call.vertices) : dets(call.vertices[i]) = 0
    /\ \E i \in Idx(call.vertices) :
        GenuinelyInterior(call.observers[i], call.vertices[i])

(***************************************************************************)
(* A style object in use: construction, attribute assignment, update and   *)
(* copy (BaseStyleProperties, lines 162-240)                               *)
(***************************************************************************)
PropertyNames(cls) == {Properties(cls)[j].name : j \in DOMAIN Properties(cls)}

\* the public methods every style class inherits
Methods == {<<"update">>, <<"copy">>, <<"as", "_", "dict">>}

\* hasattr(self, key) for a public name
hasattr(self, key) == key \in PropertyNames(self.cls) \union Methods

\* self.<key> = value on a constructed (frozen) object: the object
\* afterwards, or the exception.  Assigning to the name of a method stores
\* an instance attribute under a name that exists and changes no property.
BaseStyleProperties_setattr(self, key, value) ==
    IF ~hasattr(self, key) THEN Raise("AttributeError")
    ELSE IF key \in PropertyNames(self.cls)
    THEN LET p == Properties(self.cls)[CHOOSE j \in DOMAIN Properties(self.cls) :
                                            Properties(self.cls)[j].name = key]
             r == setattr_on(self.cls, p, value)
         IN  IF r.t = "raise" THEN r ELSE Obj(self.cls, SetItem(self.items, key, r))
    ELSE self

\* the caller's inputs
StyleClasses == {"MagnetStyle", "SensorStyle", "LineStyle"}

ConstructorKeywords ==
    {Item(<<"name">>, Leaf("given")),
     Item(<<"foo">>, Leaf("1")),
     Item(<<"name", "_", "x">>, Leaf("1")),
     Item(<<"color", "_", "foo">>, Leaf("1")),
     Item(<<"path", "_", "line", "_", "foo">>, Leaf("1")),
     Item(<<"path", "_", "line", "_", "width">>, Leaf("2"))}

AssignedNames == {<<"name">>, <<"opacity">>, <<"path">>, <<"foo">>, <<"width">>}

AssignedValues ==
    {Leaf("a"), None, Dict(<<Item(<<"line">>, Dict(<<Item(<<"width">>, Leaf("9"))>>))>>)}

UpdateKeywords ==
    {Item(<<"name">>, Leaf("own")), Item(<<"foo">>, Leaf("1")),
     Item(<<"path", "_", "line", "_", "width">>, Leaf("9"))}

InitFrozen == InitStyle

\* cls(**kwargs)
Construct(cls, kwargs) ==
    /\ obj = NoObject
    /\ call' = [fn |-> "__init__", cls |-> cls, kwargs |-> kwargs]
    /\ ret' = [out |-> IF BaseStyleProperties_init(cls, kwargs).t = "raise"
                       THEN "raised" ELSE "returned",
               val |-> BaseStyleProperties_init(cls, kwargs)]
    /\ obj' = IF ret'.out = "returned" THEN [type |-> cls, style |-> ret'.val] ELSE obj
    /\ UNCHANGED <<observers, diameter, current, vertices, polarization, keywords>>

\* style.<key> = value
Assign(key, value) ==
    /\ obj # NoObject
    /\ call' = [fn |-> "__setattr__", before |-> obj.style, key |-> key, value |-> value]
    /\ ret' = [out |-> IF BaseStyleProperties_setattr(obj.style, key, value).t = "raise"
                       THEN "raised" ELSE "returned",
               val |-> BaseStyleProperties_setattr(obj.style, key, value)]
    /\ obj' = IF ret'.out = "returned" THEN [obj EXCEPT !.style = ret'.val] ELSE obj
    /\ UNCHANGED <<observers, diameter, current, vertices, polarization, keywords>>

\* style.update(_match_properties=match, **{k: v})
Update(keyword, match) ==
    /\ obj # NoObject
    /\ call' = [fn |-> "update", before |-> obj.style, kwargs |-> <<keyword>>,
                match |-> match]
    /\ ret' = [out |-> IF update(obj.style, <<keyword>>, match, FALSE).t = "raise"
                       THEN "raised" ELSE "returned",
               val |-> update(obj.style, <<keyword>>, match, FALSE)]
    /\ obj' = IF ret'.out = "returned" THEN [obj EXCEPT !.style = ret'.val] ELSE obj
    /\ UNCHANGED <<observers, diameter, current, vertices, polarization, keywords>>

\* style.copy(), which the caller goes on with
Copy ==
    /\ obj # NoObject
    /\ call' = [fn |-> "copy", before |-> obj.style]
    /\ ret' = [out |-> IF copy(obj.style).t = "raise" THEN "raised" ELSE "returned",
               val |-> copy(obj.style)]
    /\ obj' = IF ret'.out = "returned" THEN [obj EXCEPT !.style = ret'.val] ELSE obj
    /\ UNCHANGED <<observers, diameter, current, vertices, polarization, keywords>>

\* the caller drops the object
Discard ==
    /\ obj # NoObject
    /\ obj' = NoObject
    /\ call' = NoCall
    /\ ret' = NoRet
    /\ UNCHANGED <<observers, diameter, current, vertices, polarization, keywords>>

NextFrozen ==
    \/ \E cls \in StyleClasses : Construct(cls, <<>>)
    \/ \E cls \in StyleClasses, k \in ConstructorKeywords : Construct(cls, <<k>>)
    \/ \E key \in AssignedNames, value \in AssignedValues : Assign(key, value)
    \/ \E k \in UpdateKeywords, match \in BOOLEAN : Update(k, match)
    \/ Copy
    \/ Discard

SpecFrozen == InitFrozen /\ [][NextFrozen]_vars

(***************************************************************************)
(* Properties of a style object in use                                     *)
(***************************************************************************)
\* the properties of self, and of the style objects it holds, are those of
\* their classes
RECURSIVE AttributesAsConstructed(_)
AttributesAsConstructed(self) ==
    /\ self.t = "obj"
    /\ [i \in DOMAIN self.items |-> self.items[i].k]
            = [j \in DOMAIN Properties(self.cls) |-> Properties(self.cls)[j].name]
    /\ \A j \in DOMAIN Properties(self.cls) :
        Properties(self.cls)[j].cls # "" =>
            /\ self.items[j].val.cls = Properties(self.cls)[j].cls
            /\ AttributesAsConstructed(self.items[j].val)

\* the keyword names a property of cls in magic underscore notation
RECURSIVE NamesProperty(_, _)
NamesProperty(cls, key) ==
    /\ <<key[1]>> \in PropertyNames(cls)
    /\ Len(key) > 1 =>
        LET p == Properties(cls)[CHOOSE j \in DOMAIN Properties(cls) :
                                    Properties(cls)[j].name = <<key[1]>>]
        IN  /\ Len(key) >= 3
            /\ p.cls # ""
            /\ NamesProperty(p.cls, SubSeq(key, 3, Len(key)))

\* a style object is frozen once constructed: whatever was assigned,
\* updated or copied, its attributes are those fixed at construction, and
\* assigning a name that is no attribute raises AttributeError and leaves
\* every property as it was
C30_FrozenAfterConstruction ==
    /\ obj # NoObject => AttributesAsConstructed(obj.style)
    /\ (call.fn = "__setattr__" /\ ~hasattr(call.before, call.key)) =>
        /\ ret.out = "raised"
        /\ ret.val = Raise("AttributeError")
        /\ obj.style = call.before

\* C30: a style object is frozen once constructed (its attribute set stays
\* the one fixed at construction under assignments, update() and copy();
\* assigning a name that is not an existing attribute raises AttributeError
\* and changes no property), and constructing one with a keyword that is
\* not a property raises AttributeError
C30_StyleFrozen ==
    /\ C30_FrozenAfterConstruction
    /\ (/\ call.fn = "__init__"
        /\ \E i \in DOMAIN call.kwargs : ~NamesProperty(call.cls, call.kwargs[i].k)) =>
        /\ ret.out = "raised"
        /\ ret.val = Raise("AttributeError")

\* constructed with a keyword that is not a property
C30_ConstructedWithUnknownKeyword ==
    /\ call.fn = "__init__"
    /\ \E i \in DOMAIN call.kwargs : ~NamesProperty(call.cls, call.kwargs[i].k)
    /\ ret.out = "returned"
====
